------------------------- MODULE ReplaceLines_proofs -------------------------
(***************************************************************************)
(* The positions that replace mode keeps are those of the lines displayed, *)
(* after any number of replacements by longer and shorter lines, whatever  *)
(* the sizes of the line and of its first word.                            *)
(*                                                                         *)
(* LinesTile says of neighbours what a replacement needs of all lines:     *)
(* Ordered has each line before every later one, so that the lines below   *)
(* keep clear of the one replaced, and Covered has the text end with the   *)
(* last line, where the next one is added.                                 *)
(* HeardInv ties them to what the run has printed, by word: a line is      *)
(* displayed where dict has its word, and dict counts the lines that were  *)
(* the first with theirs.  CHOOSE and the order of the lines come in only  *)
(* at the end (HeardIsLatest).                                             *)
(***************************************************************************)
EXTENDS ReplaceLines, FiniteSetTheorems, SequenceTheorems, WellFoundedInduction, TLAPS

\* A line ends where it begins or later, and before any later line begins.
Ordered ==
    \A i \in DOMAIN pos_lens :
        /\ pos_lens[i].start <= pos_lens[i].end
        /\ \A j \in DOMAIN pos_lens : i < j => pos_lens[i].end < pos_lens[j].start

\* There are lines only in a run in replace mode.
NoLinesBetween == ~(run /\ replace) => pos_lens = <<>> /\ dict = <<>>

\* The text ends with the last line.
Covered ==
    run /\ replace /\ ~touched =>
        Len(text["stdout"]) =
            IF pos_lens = <<>> THEN 0 ELSE pos_lens[Len(pos_lens)].end + 1

IInv == TypeOK /\ Ordered /\ NoLinesBetween /\ Covered /\ LinesTile

\* What is displayed as the i-th line.
Displayed(i) == SubSeq(text["stdout"], pos_lens[i].start + 1, pos_lens[i].end)

\* The lines of the run that are the first with their word, and the last.
Firsts == {j \in DOMAIN heard : \A k \in 1..j - 1 : Name(heard[k]) # Name(heard[j])}

IsLastWith(j, w) ==
    /\ j \in DOMAIN heard /\ Name(heard[j]) = w
    /\ \A m \in j + 1..Len(heard) : Name(heard[m]) # w

\* What dict and pos_lens are, in terms of what the run has printed: dict has
\* the words of its lines, numbers them by their first lines, and the last
\* line with a word is displayed where dict says.
Numbered ==
    /\ \A j \in DOMAIN heard : Name(heard[j]) \in DOMAIN dict
    /\ \A j \in Firsts : dict[Name(heard[j])] = Cardinality({k \in Firsts : k <= j})
    /\ Cardinality(Firsts) = Len(pos_lens)
    /\ IsFiniteSet(DOMAIN dict) /\ Cardinality(DOMAIN dict) = Len(pos_lens)

Latest == \A w \in DOMAIN dict, i \in 1..Len(pos_lens) :
              dict[w] = i =>
                  \E j \in DOMAIN heard : IsLastWith(j, w) /\ Displayed(i) = heard[j]

\* So it is in a run that found cur_line empty, until one overflows or a line
\* is replaced in a view with the focus.
HeardInv ==
    run /\ replace /\ ~touched /\ ~carried /\ fault = "none" =>
        cur_line = partial /\ Numbered /\ Latest

Line == Seq(Letters \union {Space})

-----------------------------------------------------------------------------
(* Names.                                                                  *)

\* Every set of numbers that is not empty has a least one.
LEMMA LeastNumber ==
    ASSUME NEW T, T \subseteq Nat, T # {}
    PROVE  \E x \in T : \A y \in T : x <= y
<1> DEFINE less == {pair \in Nat \X Nat : pair[1] < pair[2]}
<1>1. IsWellFoundedOn(less, Nat)
  BY NatLessThanWellFounded, Zenon DEF OpToRel
<1>2. PICK x \in T : \A y \in T : <<y, x>> \notin less
  BY <1>1, WFMin, Zenon
<1>3. \A y \in T : ~(y < x)
  BY <1>2
<1> QED
  BY <1>3

\* The first word of a line has no space in it.
LEMMA NameIsWord ==
    ASSUME NEW l \in Line
    PROVE  Name(l) \in Seq(Letters)
<1> DEFINE spaces == {i \in DOMAIN l : l[i] = Space}
           n == IF spaces = {} THEN Len(l)
                ELSE (CHOOSE i \in spaces : \A j \in spaces : i <= j) - 1
<1>1. spaces \subseteq 1..Len(l)
  BY DEF Line
<1>2. n \in 0..Len(l) /\ \A i \in 1..n : i \notin spaces
  <2>1. CASE spaces = {}
    BY <2>1 DEF Line
  <2>2. CASE spaces # {}
    <3> DEFINE m == CHOOSE i \in spaces : \A j \in spaces : i <= j
    <3> HIDE DEF spaces
    <3>0. spaces \subseteq Nat
      BY <1>1
    <3>1. \E i \in spaces : \A j \in spaces : i <= j
      BY <3>0, <2>2, LeastNumber
    <3>2. m \in spaces /\ \A j \in spaces : m <= j
      BY <3>1, Zenon
    <3> HIDE DEF m
    <3>3. n = m - 1
      BY <2>2 DEF m
    <3>4. m \in 1..Len(l)
      BY <1>1, <3>2
    <3> HIDE DEF n
    <3> QED
      BY <3>2, <3>3, <3>4 DEF Line
  <2> QED
    BY <2>1, <2>2
<1>3. Name(l) = SubSeq(l, 1, n)
  BY Zenon DEF Name
<1> HIDE DEF n
<1>4. \A i \in 1..n : l[i] \in Letters
  <2>1. \A i \in 1..Len(l) : l[i] \in Letters \union {Space}
    BY DEF Line
  <2> QED
    BY <1>2, <2>1 DEF Line
<1>5. SubSeq(l, 1, n) \in Seq(Letters)
  BY <1>2, <1>4, SubSeqProperties
<1> QED
  BY <1>3, <1>5

\* A first word that fits in line.name is one that dict can have.
LEMMA NameFits ==
    ASSUME NEW l \in Line, ~(Len(Name(l)) >= NameSize)
    PROVE  Name(l) \in Words
<1>1. Name(l) \in Seq(Letters)
  BY NameIsWord
<1>2. Len(Name(l)) \in 0..NameSize - 1
  BY <1>1, LineAssumption
<1>3. Name(l) \in [1..Len(Name(l)) -> Letters]
  BY <1>1
<1> QED
  BY <1>2, <1>3 DEF Words

-----------------------------------------------------------------------------
(* The text.                                                               *)

\* Where the elements of a concatenation come from.
LEMMA ConcatSides ==
    ASSUME NEW S, NEW s1 \in Seq(S), NEW s2 \in Seq(S)
    PROVE  /\ s1 \o s2 \in Seq(S) /\ Len(s1 \o s2) = Len(s1) + Len(s2)
           /\ \A i \in 1..Len(s1) : (s1 \o s2)[i] = s1[i]
           /\ \A i \in 1..Len(s2) : (s1 \o s2)[Len(s1) + i] = s2[i]
<1>1. \A i \in 1..Len(s1) + Len(s2) : (s1 \o s2)[i] =
          IF i <= Len(s1) THEN s1[i] ELSE s2[i - Len(s1)]
  BY ConcatProperties
<1>2. Len(s1) \in Nat /\ Len(s2) \in Nat
  OBVIOUS
<1>3. ASSUME NEW i \in 1..Len(s1) PROVE (s1 \o s2)[i] = s1[i]
  BY <1>1, <1>2
<1>4. ASSUME NEW i \in 1..Len(s2) PROVE (s1 \o s2)[Len(s1) + i] = s2[i]
  <2>1. /\ Len(s1) + i \in 1..Len(s1) + Len(s2)
        /\ ~(Len(s1) + i <= Len(s1)) /\ (Len(s1) + i) - Len(s1) = i
    BY <1>2
  <2> QED
    BY <1>1, <2>1
<1> QED
  BY <1>3, <1>4, ConcatProperties

\* What a replacement leaves before it, puts in, and moves.
LEMMA SpliceProperties ==
    ASSUME NEW S, NEW s \in Seq(S), NEW r \in Seq(S), NEW a \in Nat, NEW b \in Nat,
           a <= b, b <= Len(s)
    PROVE  /\ Splice(s, a, b, r) \in Seq(S)
           /\ Len(Splice(s, a, b, r)) = Len(s) + a + Len(r) - b
           /\ \A i \in 1..a : Splice(s, a, b, r)[i] = s[i]
           /\ \A i \in 1..Len(r) : Splice(s, a, b, r)[a + i] = r[i]
           /\ \A i \in b + 1..Len(s) :
                 Splice(s, a, b, r)[i + (a + Len(r) - b)] = s[i]
<1> DEFINE head == SubSeq(s, 1, a)
           tail == SubSeq(s, b + 1, Len(s))
<1>1. /\ head \in Seq(S) /\ Len(head) = a
      /\ \A i \in 1..a : head[i] = s[i]
  <2>1. \A i \in 1..a : s[i] \in S
    OBVIOUS
  <2> QED
    BY <2>1, SubSeqProperties
<1>2. /\ tail \in Seq(S) /\ Len(tail) = Len(s) - b
      /\ \A i \in 1..Len(s) - b : tail[i] = s[b + i]
  <2>1. \A i \in b + 1..Len(s) : s[i] \in S
    OBVIOUS
  <2> QED
    BY <2>1, SubSeqProperties
<1>3. Splice(s, a, b, r) = (head \o r) \o tail
  <2>1. (IF a < Len(s) THEN a ELSE Len(s)) = a
    OBVIOUS
  <2> QED
    BY <2>1 DEF Splice
<1> HIDE DEF head, tail
<1>4. /\ head \o r \in Seq(S) /\ Len(head \o r) = a + Len(r)
      /\ \A i \in 1..a : (head \o r)[i] = s[i]
      /\ \A i \in 1..Len(r) : (head \o r)[a + i] = r[i]
  <2>1. /\ head \o r \in Seq(S) /\ Len(head \o r) = Len(head) + Len(r)
        /\ \A i \in 1..Len(head) : (head \o r)[i] = head[i]
        /\ \A i \in 1..Len(r) : (head \o r)[Len(head) + i] = r[i]
    <3>1. head \in Seq(S)
      BY <1>1
    <3> QED
      BY <3>1, ConcatSides
  <2> QED
    BY <1>1, <2>1
<1> DEFINE front == head \o r
<1> HIDE DEF front
<1>5. /\ front \o tail \in Seq(S) /\ Len(front \o tail) = a + Len(r) + (Len(s) - b)
      /\ \A i \in 1..a + Len(r) : (front \o tail)[i] = front[i]
      /\ \A i \in 1..Len(s) - b : (front \o tail)[a + Len(r) + i] = tail[i]
  <2>1. front \in Seq(S) /\ Len(front) = a + Len(r)
    BY <1>4 DEF front
  <2>2. Len(s) - b = Len(tail) /\ tail \in Seq(S)
    BY <1>2
  <2>3. /\ front \o tail \in Seq(S) /\ Len(front \o tail) = Len(front) + Len(tail)
        /\ \A i \in 1..Len(front) : (front \o tail)[i] = front[i]
        /\ \A i \in 1..Len(tail) : (front \o tail)[Len(front) + i] = tail[i]
    <3>1. front \in Seq(S)
      BY <2>1
    <3>2. tail \in Seq(S)
      BY <2>2
    <3> QED
      BY <3>1, <3>2, ConcatSides
  <2> QED
    BY <2>1, <2>2, <2>3
<1>6. \A i \in b + 1..Len(s) : (front \o tail)[i + (a + Len(r) - b)] = s[i]
  <2> TAKE i \in b + 1..Len(s)
  <2>1. i - b \in 1..Len(s) - b /\ i + (a + Len(r) - b) = a + Len(r) + (i - b)
    OBVIOUS
  <2>2. b + (i - b) = i
    OBVIOUS
  <2> QED
    BY <1>2, <1>5, <2>1, <2>2
<1>7. Splice(s, a, b, r) = front \o tail
  BY <1>3 DEF front
<1>8. /\ \A i \in 1..a : (front \o tail)[i] = s[i]
      /\ \A i \in 1..Len(r) : (front \o tail)[a + i] = r[i]
  <2>1. /\ \A i \in 1..a : front[i] = s[i]
        /\ \A i \in 1..Len(r) : front[a + i] = r[i]
    BY <1>4 DEF front
  <2>2. /\ \A i \in 1..a : i \in 1..a + Len(r)
        /\ \A i \in 1..Len(r) : a + i \in 1..a + Len(r)
    OBVIOUS
  <2> QED
    BY <1>5, <2>1, <2>2
<1> QED
  BY <1>5, <1>6, <1>7, <1>8

\* A part of a text that was only moved reads the same.
LEMMA SameMoved ==
    ASSUME NEW S, NEW s \in Seq(S), NEW t \in Seq(S), NEW m \in Nat, NEW n \in Nat,
           NEW d \in Int, m <= n, n <= Len(s), m + d >= 0, n + d <= Len(t),
           \A i \in m + 1..n : t[i + d] = s[i]
    PROVE  SubSeq(t, m + d + 1, n + d) = SubSeq(s, m + 1, n)
<1> DEFINE u == SubSeq(s, m + 1, n)
           v == SubSeq(t, m + d + 1, n + d)
<1>1. /\ u \in Seq(S) /\ Len(u) = n - m
      /\ \A i \in 1..n - m : u[i] = s[m + i]
  <2>1. \A i \in m + 1..n : s[i] \in S
    OBVIOUS
  <2> QED
    BY <2>1, SubSeqProperties
<1>2. /\ v \in Seq(S) /\ Len(v) = n - m
      /\ \A i \in 1..n - m : v[i] = t[m + d + i]
  <2>1. \A i \in m + d + 1..n + d : t[i] \in S
    OBVIOUS
  <2> QED
    BY <2>1, SubSeqProperties
<1>3. \A i \in 1..n - m : v[i] = u[i]
  <2> TAKE i \in 1..n - m
  <2>1. m + i \in m + 1..n /\ (m + i) + d = m + d + i
    OBVIOUS
  <2> QED
    BY <1>1, <1>2, <2>1
<1> QED
  BY <1>1, <1>2, <1>3, SeqEqual

\* A line found in the text reads as it was written.
LEMMA ReadBack ==
    ASSUME NEW S, NEW t \in Seq(S), NEW l \in Seq(S), NEW a \in Nat,
           a + Len(l) <= Len(t), \A i \in 1..Len(l) : t[a + i] = l[i]
    PROVE  SubSeq(t, a + 1, a + Len(l)) = l
<1>1. /\ SubSeq(t, a + 1, a + Len(l)) \in Seq(S)
      /\ Len(SubSeq(t, a + 1, a + Len(l))) = Len(l)
      /\ \A i \in 1..Len(l) : SubSeq(t, a + 1, a + Len(l))[i] = t[a + i]
  <2>1. \A i \in a + 1..a + Len(l) : t[i] \in S
    OBVIOUS
  <2> QED
    BY <2>1, SubSeqProperties
<1> QED
  BY <1>1, SeqEqual

-----------------------------------------------------------------------------
(* A line whose first word is known.                                       *)

\* All lines keep clear of each other when one grows or shrinks.
LEMMA ShiftedOrdered ==
    ASSUME TypeOK, Ordered, NEW n \in DOMAIN pos_lens, NEW len \in Nat,
           pos_lens' = [i \in DOMAIN pos_lens |->
                           Shifted(i, n, pos_lens[n].start + len - pos_lens[n].end)]
    PROVE  /\ pos_lens' \in Seq([start : Nat, end : Nat])
           /\ Len(pos_lens') = Len(pos_lens)
           /\ Ordered'
           /\ \A i \in 1..Len(pos_lens) :
                 /\ pos_lens'[i].start = pos_lens[i].start +
                       IF i > n THEN pos_lens[n].start + len - pos_lens[n].end ELSE 0
                 /\ pos_lens'[i].end = pos_lens[i].end +
                       IF i >= n THEN pos_lens[n].start + len - pos_lens[n].end ELSE 0
<1> DEFINE N == Len(pos_lens)
           diff == pos_lens[n].start + len - pos_lens[n].end
<1>1. /\ DOMAIN pos_lens = 1..N /\ N \in Nat
      /\ \A i \in 1..N : pos_lens[i] \in [start : Nat, end : Nat]
  <2>1. pos_lens \in Seq([start : Nat, end : Nat])
    BY DEF TypeOK
  <2>2. DOMAIN pos_lens = 1..N /\ N \in Nat
    BY <2>1, LenProperties, Zenon
  <2>3. \A i \in 1..N : pos_lens[i] \in [start : Nat, end : Nat]
    BY <2>1, ElementOfSeq, Zenon
  <2> QED
    BY <2>2, <2>3
<1>2. /\ \A i \in 1..N : pos_lens[i].start \in Nat /\ pos_lens[i].end \in Nat
      /\ diff \in Int
  BY <1>1
<1>3. /\ \A i \in 1..N : pos_lens[i].start <= pos_lens[i].end
      /\ \A i, j \in 1..N : i < j => pos_lens[i].end < pos_lens[j].start
  BY <1>1 DEF Ordered
<1>4. ASSUME NEW i \in 1..N
      PROVE  /\ Shifted(i, n, diff) \in [start : Nat, end : Nat]
             /\ Shifted(i, n, diff).start =
                   pos_lens[i].start + IF i > n THEN diff ELSE 0
             /\ Shifted(i, n, diff).end =
                   pos_lens[i].end + IF i >= n THEN diff ELSE 0
  <2>1. CASE i < n
    BY <1>1, <1>2, <2>1 DEF Shifted
  <2>2. CASE i = n
    <3>1. pos_lens[n].end + diff = pos_lens[n].start + len
      BY <1>1, <1>2
    <3>2. Shifted(i, n, diff) = [pos_lens[n] EXCEPT !.end = @ + diff]
      BY <2>2 DEF Shifted
    <3> QED
      BY <1>1, <1>2, <2>2, <3>1, <3>2
  <2>3. CASE i > n
    <3>1. pos_lens[n].end < pos_lens[i].start /\ pos_lens[i].start <= pos_lens[i].end
      BY <1>1, <1>3, <2>3
    <3>2. pos_lens[i].start + diff \in Nat /\ pos_lens[i].end + diff \in Nat
      BY <1>1, <1>2, <3>1
    <3>3. Shifted(i, n, diff) =
             [start |-> pos_lens[i].start + diff, end |-> pos_lens[i].end + diff]
      BY <1>1, <2>3 DEF Shifted
    <3> QED
      BY <1>1, <1>2, <2>3, <3>2, <3>3
  <2> QED
    BY <1>1, <2>1, <2>2, <2>3
<1>5. pos_lens' = [i \in 1..N |-> Shifted(i, n, diff)]
  BY <1>1
<1> HIDE DEF N, diff
<1>6. /\ pos_lens' \in Seq([start : Nat, end : Nat]) /\ Len(pos_lens') = N
      /\ DOMAIN pos_lens' = 1..N
  <2>1. pos_lens' \in [1..N -> [start : Nat, end : Nat]]
    BY <1>4, <1>5
  <2> QED
    BY <1>1, <2>1
<1>7. \A i \in 1..N : pos_lens'[i] = Shifted(i, n, diff)
  BY <1>5
<1>8. ASSUME NEW i \in 1..N
      PROVE  /\ pos_lens'[i].start <= pos_lens'[i].end
             /\ \A j \in 1..N : i < j => pos_lens'[i].end < pos_lens'[j].start
  <2>1. pos_lens'[i].start <= pos_lens'[i].end
    <3>1. /\ pos_lens'[i].start = pos_lens[i].start + IF i > n THEN diff ELSE 0
          /\ pos_lens'[i].end = pos_lens[i].end + IF i >= n THEN diff ELSE 0
      BY <1>4, <1>7
    <3>2. /\ pos_lens[i].start \in Nat /\ pos_lens[i].end \in Nat /\ diff \in Int
          /\ pos_lens[i].start <= pos_lens[i].end
      BY <1>2, <1>3
    <3>3. i = n => pos_lens[i].end + diff = pos_lens[i].start + len
      BY <1>1, <1>2 DEF diff
    <3>4. i \in Nat /\ n \in Nat
      BY <1>1
    <3> QED
      BY <3>1, <3>2, <3>3, <3>4
  <2>2. ASSUME NEW j \in 1..N, i < j PROVE pos_lens'[i].end < pos_lens'[j].start
    <3>1. pos_lens[i].end < pos_lens[j].start
      BY <1>3, <2>2
    <3>2. /\ pos_lens'[i].end = pos_lens[i].end + IF i >= n THEN diff ELSE 0
          /\ pos_lens'[j].start = pos_lens[j].start + IF j > n THEN diff ELSE 0
      BY <1>4, <1>7
    <3>3. i >= n => j > n
      BY <1>1, <2>2
    <3>4. pos_lens[i].end \in Nat /\ pos_lens[j].start \in Nat /\ diff \in Int
      BY <1>2
    <3>5. CASE i >= n
      BY <3>1, <3>2, <3>3, <3>4, <3>5
    <3>6. CASE ~(i >= n)
      <4>1. CASE j > n
        <5>1. pos_lens[i].end < pos_lens[n].start
          BY <1>1, <1>3, <3>6
        <5>2. pos_lens[n].end < pos_lens[j].start
          BY <1>1, <1>3, <4>1
        <5>3. pos_lens[n].start <= pos_lens[n].end + diff
          BY <1>1, <1>2 DEF diff
        <5>4. pos_lens[n].start \in Nat /\ pos_lens[n].end \in Nat
          BY <1>1, <1>2
        <5> QED
          BY <3>2, <3>4, <3>6, <4>1, <5>1, <5>2, <5>3, <5>4
      <4>2. CASE ~(j > n)
        BY <3>1, <3>2, <3>4, <3>6, <4>2
      <4> QED
        BY <4>1, <4>2
    <3> QED
      BY <3>5, <3>6
  <2> QED
    BY <2>1, <2>2
<1>9. \A i \in 1..N :
          /\ pos_lens'[i].start = pos_lens[i].start + IF i > n THEN diff ELSE 0
          /\ pos_lens'[i].end = pos_lens[i].end + IF i >= n THEN diff ELSE 0
  BY <1>4, <1>7
<1> QED
  BY <1>6, <1>8, <1>9 DEF Ordered, N, diff

\* What the invariant says of positions, without the records.
LEMMA Positions ==
    ASSUME TypeOK, Ordered
    PROVE  /\ Len(pos_lens) \in Nat /\ DOMAIN pos_lens = 1..Len(pos_lens)
           /\ \A i \in 1..Len(pos_lens) :
                 /\ pos_lens[i].start \in Nat /\ pos_lens[i].end \in Nat
                 /\ pos_lens[i].start <= pos_lens[i].end
           /\ \A i, j \in 1..Len(pos_lens) :
                 i < j => pos_lens[i].end < pos_lens[j].start
<1>1. pos_lens \in Seq([start : Nat, end : Nat])
  BY DEF TypeOK
<1>2. DOMAIN pos_lens = 1..Len(pos_lens) /\ Len(pos_lens) \in Nat
  BY <1>1, LenProperties, Zenon
<1>3. \A i \in 1..Len(pos_lens) : pos_lens[i] \in [start : Nat, end : Nat]
  BY <1>1, ElementOfSeq, Zenon
<1> QED
  BY <1>2, <1>3 DEF Ordered

\* All lines are inside the text, each with its newline.
LEMMA InText ==
    ASSUME IInv, run, replace, ~touched
    PROVE  /\ text["stdout"] \in Seq(Chars)
           /\ \A i \in 1..Len(pos_lens) : pos_lens[i].end + 1 <= Len(text["stdout"])
<1>1. text["stdout"] \in Seq(Chars)
  BY DEF IInv, TypeOK, ViewsTypeOK, Views
<1>2. ASSUME NEW i \in 1..Len(pos_lens)
      PROVE  pos_lens[i].end + 1 <= Len(text["stdout"])
  <2> DEFINE N == Len(pos_lens)
  <2>1. /\ N \in Nat /\ N \in 1..N
        /\ \A k \in 1..N : /\ pos_lens[k].start \in Nat /\ pos_lens[k].end \in Nat
                           /\ pos_lens[k].start <= pos_lens[k].end
        /\ \A k, j \in 1..N : k < j => pos_lens[k].end < pos_lens[j].start
    BY Positions DEF IInv
  <2>2. pos_lens # <<>>
    BY <2>1
  <2>3. Len(text["stdout"]) = pos_lens[N].end + 1
    BY <2>2 DEF IInv, Covered
  <2> HIDE DEF N
  <2>4. CASE i = N
    BY <2>1, <2>3, <2>4
  <2>5. CASE i < N
    <3>1. pos_lens[i].end < pos_lens[N].start /\ pos_lens[N].start <= pos_lens[N].end
      BY <2>1, <2>5 DEF N
    <3>2. /\ pos_lens[i].end \in Nat /\ pos_lens[N].start \in Nat
          /\ pos_lens[N].end \in Nat
      BY <2>1 DEF N
    <3> QED
      BY <2>3, <3>1, <3>2
  <2> QED
    BY <2>1, <2>4, <2>5 DEF N
<1> QED
  BY <1>1, <1>2

\* A line and its newline are text.
LEMMA LineType ==
    ASSUME NEW l \in Line
    PROVE  /\ l \in Seq(Chars) /\ Len(l) \in Nat
           /\ Append(l, NewLine) \in Seq(Chars)
           /\ Len(Append(l, NewLine)) = Len(l) + 1
           /\ \A i \in 1..Len(l) : Append(l, NewLine)[i] = l[i]
           /\ Append(l, NewLine)[Len(l) + 1] = NewLine
<1>1. Letters \union {Space} \subseteq Chars /\ NewLine \in Chars
  BY DEF Chars
<1>2. l \in Seq(Chars)
  BY <1>1, SeqMonotonic DEF Line
<1> QED
  BY <1>1, <1>2, AppendProperties

\* The step that makes l the n-th line, in a view without the focus.
Becomes(n, l) ==
    /\ text'["stdout"] = Splice(text["stdout"], pos_lens[n].start,
                                pos_lens[n].end + 1, Append(l, NewLine))
    /\ pos_lens' = [i \in DOMAIN pos_lens |->
                       Shifted(i, n, pos_lens[n].start + Len(l) - pos_lens[n].end)]
    /\ UNCHANGED dict

\* The new end of the n-th line is a whole line after its start.
LEMMA GrowBy ==
    ASSUME NEW x \in Nat, NEW y \in Nat, NEW z \in Nat
    PROVE  x + (y + z - x) = y + z
  OBVIOUS

\* Where the lines are once the n-th has become l.
LEMMA TilesReplaced ==
    ASSUME IInv, run, replace, ~touched,
           NEW l \in Line, Name(l) \in DOMAIN dict,
           NEW n, n = dict[Name(l)], Becomes(n, l)
    PROVE  /\ Covered' /\ LinesTile'
           /\ \A i \in 1..Len(pos_lens) :
                 Displayed(i)' = IF i = n THEN l ELSE Displayed(i)
<1> DEFINE N == Len(pos_lens)
           t == text["stdout"]
           u == text'["stdout"]
           r == Append(l, NewLine)
           a == pos_lens[n].start
           b == pos_lens[n].end + 1
           diff == a + Len(l) - pos_lens[n].end
<1>1. /\ N \in Nat /\ DOMAIN pos_lens = 1..N
      /\ \A i \in 1..N :
            /\ pos_lens[i].start \in Nat /\ pos_lens[i].end \in Nat
            /\ pos_lens[i].start <= pos_lens[i].end
      /\ \A i, j \in 1..N : i < j => pos_lens[i].end < pos_lens[j].start
  BY Positions DEF IInv
<1>2. n \in 1..N
  BY DEF IInv, TypeOK
<1>3. t \in Seq(Chars) /\ \A i \in 1..N : pos_lens[i].end + 1 <= Len(t)
  BY InText
<1>4. /\ l \in Seq(Chars) /\ Len(l) \in Nat /\ r \in Seq(Chars) /\ Len(r) = Len(l) + 1
      /\ \A i \in 1..Len(l) : r[i] = l[i]
      /\ r[Len(l) + 1] = NewLine
  BY LineType
<1>5. /\ a \in Nat /\ b \in Nat /\ a < b /\ b <= Len(t)
      /\ diff \in Int /\ diff = a + Len(r) - b
  <2>1. /\ pos_lens[n].start \in Nat /\ pos_lens[n].end \in Nat
        /\ pos_lens[n].start <= pos_lens[n].end
        /\ pos_lens[n].end + 1 <= Len(t) /\ Len(t) \in Nat
    BY <1>1, <1>2, <1>3
  <2>2. Len(l) \in Nat /\ Len(r) = Len(l) + 1
    BY <1>4
  <2> QED
    BY <2>1, <2>2
<1>6. /\ u \in Seq(Chars) /\ Len(u) = Len(t) + diff
      /\ \A i \in 1..a : u[i] = t[i]
      /\ \A i \in 1..Len(r) : u[a + i] = r[i]
      /\ \A i \in b + 1..Len(t) : u[i + diff] = t[i]
  <2>1. u = Splice(t, a, b, r)
    BY DEF Becomes
  <2> HIDE DEF t, u, a, b, r, diff
  <2>2. a <= b
    BY <1>5
  <2>3. /\ Splice(t, a, b, r) \in Seq(Chars)
        /\ Len(Splice(t, a, b, r)) = Len(t) + a + Len(r) - b
        /\ \A i \in 1..a : Splice(t, a, b, r)[i] = t[i]
        /\ \A i \in 1..Len(r) : Splice(t, a, b, r)[a + i] = r[i]
        /\ \A i \in b + 1..Len(t) : Splice(t, a, b, r)[i + (a + Len(r) - b)] = t[i]
    <3>1. t \in Seq(Chars) /\ r \in Seq(Chars)
      BY <1>3, <1>4
    <3>2. a \in Nat /\ b \in Nat /\ b <= Len(t)
      BY <1>5
    <3>3. Splice(t, a, b, r) \in Seq(Chars)
      BY <2>2, <3>1, <3>2, SpliceProperties
    <3>7. Len(Splice(t, a, b, r)) = Len(t) + a + Len(r) - b
      BY <2>2, <3>1, <3>2, SpliceProperties
    <3>4. \A i \in 1..a : Splice(t, a, b, r)[i] = t[i]
      BY <2>2, <3>1, <3>2, SpliceProperties
    <3>5. \A i \in 1..Len(r) : Splice(t, a, b, r)[a + i] = r[i]
      BY <2>2, <3>1, <3>2, SpliceProperties
    <3>6. \A i \in b + 1..Len(t) : Splice(t, a, b, r)[i + (a + Len(r) - b)] = t[i]
      BY <2>2, <3>1, <3>2, SpliceProperties
    <3> QED
      BY <3>3, <3>4, <3>5, <3>6, <3>7
  <2> QED
    BY <1>3, <1>4, <1>5, <2>1, <2>3
<1>7. /\ Len(pos_lens') = N /\ DOMAIN pos_lens' = 1..N
      /\ \A i \in 1..N :
            /\ pos_lens'[i].start = pos_lens[i].start + IF i > n THEN diff ELSE 0
            /\ pos_lens'[i].end = pos_lens[i].end + IF i >= n THEN diff ELSE 0
  BY <1>2, <1>4, ShiftedOrdered, LenProperties DEF IInv, TypeOK, Becomes
<1>8. /\ \A i \in 1..N : pos_lens[i].start = IF i = 1 THEN 0 ELSE pos_lens[i - 1].end + 1
      /\ \A i \in 1..N : t[pos_lens[i].end + 1] = NewLine
      /\ \A i \in 1..N : \E w \in DOMAIN dict : dict[w] = i
      /\ \A w \in DOMAIN dict :
            w = Name(SubSeq(t, pos_lens[dict[w]].start + 1, pos_lens[dict[w]].end))
  BY <1>1 DEF IInv, LinesTile
<1>9. \A w \in DOMAIN dict : dict[w] \in 1..N
  BY DEF IInv, TypeOK
<1>place. /\ n \in Nat /\ pos_lens[n].end \in Nat
          /\ a = pos_lens[n].start /\ b = pos_lens[n].end + 1
  BY <1>1, <1>2
<1> HIDE DEF N, t, u, r, a, b, diff
<1>n. pos_lens'[n].start = a /\ pos_lens'[n].end = a + Len(l)
  <2>1. /\ pos_lens'[n].start = pos_lens[n].start + IF n > n THEN diff ELSE 0
        /\ pos_lens'[n].end = pos_lens[n].end + IF n >= n THEN diff ELSE 0
    BY <1>2, <1>7
  <2> QED
    <3>2. a \in Nat /\ Len(l) \in Nat /\ diff \in Int
      BY <1>4, <1>5
    <3>3. ~(n > n) /\ n >= n
      BY <1>place
    <3>4. pos_lens[n].end + diff = a + Len(l)
      BY <1>place, <3>2, GrowBy DEF diff
    <3> QED
      BY <1>place, <2>1, <3>2, <3>3, <3>4
<1>10. Len(u) = IF pos_lens' = <<>> THEN 0 ELSE pos_lens'[N].end + 1
  <2>1. pos_lens # <<>> /\ pos_lens' # <<>> /\ N \in 1..N /\ N >= n
    <3>1. N >= 1 /\ N >= n /\ N \in 1..N
      BY <1>1, <1>2
    <3>2. Len(pos_lens) # 0 /\ Len(pos_lens') # 0
      BY <1>7, <3>1 DEF N
    <3> QED
      BY <3>1, <3>2, EmptySeq
  <2>2. Len(t) = pos_lens[N].end + 1
    BY <2>1 DEF IInv, Covered, N, t
  <2> QED
    <3>1. pos_lens'[N].end = pos_lens[N].end + diff
      BY <1>7, <2>1
    <3>2. pos_lens[N].end \in Nat
      BY <1>1, <2>1
    <3> QED
      BY <1>5, <1>6, <2>1, <2>2, <3>1, <3>2
<1>11. ASSUME NEW i \in 1..N
       PROVE  /\ pos_lens'[i].start = IF i = 1 THEN 0 ELSE pos_lens'[i - 1].end + 1
              /\ u[pos_lens'[i].end + 1] = NewLine
  <2>1. pos_lens'[i].start = IF i = 1 THEN 0 ELSE pos_lens'[i - 1].end + 1
    <3>1. CASE i = 1
      BY <1>1, <1>2, <1>7, <1>8, <3>1
    <3>2. CASE i # 1
      <4>1. i - 1 \in 1..N /\ (i > n <=> i - 1 >= n) /\ n \in Nat
        BY <1>1, <1>2, <3>2
      <4>2. pos_lens'[i - 1].end = pos_lens[i - 1].end + IF i - 1 >= n THEN diff ELSE 0
        BY <1>7, <4>1
      <4>3. pos_lens'[i].start = pos_lens[i].start + IF i > n THEN diff ELSE 0
        BY <1>7
      <4>4. pos_lens[i].start = pos_lens[i - 1].end + 1
        BY <1>8, <3>2
      <4>5. pos_lens[i - 1].end \in Nat
        BY <1>1, <4>1
      <4> QED
        BY <1>5, <3>2, <4>1, <4>2, <4>3, <4>4, <4>5
    <3> QED
      BY <3>1, <3>2
  <2>2. u[pos_lens'[i].end + 1] = NewLine
    <3>1. CASE i < n
      <4>1. pos_lens[i].end + 1 \in 1..a /\ pos_lens'[i].end = pos_lens[i].end
        BY <1>1, <1>2, <1>7, <3>1 DEF a
      <4> QED
        BY <1>6, <1>8, <4>1
    <3>2. CASE i = n
      <4>2. Len(l) + 1 \in 1..Len(r) /\ a + (Len(l) + 1) = a + Len(l) + 1
        BY <1>4, <1>5
      <4> QED
        BY <1>n, <1>4, <1>6, <3>2, <4>2
    <3>3. CASE i > n
      <4>1. pos_lens[i].end + 1 \in b + 1..Len(t)
        <5>1. /\ pos_lens[n].end < pos_lens[i].start
              /\ pos_lens[i].start <= pos_lens[i].end
          BY <1>1, <1>2, <3>3
        <5>2. /\ pos_lens[i].start \in Nat /\ pos_lens[i].end \in Nat
              /\ pos_lens[i].end + 1 <= Len(t) /\ Len(t) \in Nat
          BY <1>1, <1>3
        <5>3. pos_lens[n].end \in Nat /\ b = pos_lens[n].end + 1
          BY <1>place
        <5>4. b + 1 <= pos_lens[i].end + 1
          BY <5>1, <5>2, <5>3
        <5> QED
          BY <5>2, <5>3, <5>4
      <4>2. pos_lens'[i].end + 1 = (pos_lens[i].end + 1) + diff
        <5>1. pos_lens'[i].end = pos_lens[i].end + IF i >= n THEN diff ELSE 0
          BY <1>7
        <5>2. pos_lens[i].end \in Nat /\ i >= n
          BY <1>1, <1>place, <3>3
        <5> QED
          BY <1>5, <5>1, <5>2
      <4> QED
        BY <1>6, <1>8, <4>1, <4>2
    <3> QED
      BY <1>1, <1>2, <3>1, <3>2, <3>3
  <2> QED
    BY <2>1, <2>2
<1>12. ASSUME NEW i \in 1..N
       PROVE  SubSeq(u, pos_lens'[i].start + 1, pos_lens'[i].end) =
                 IF i = n THEN l ELSE SubSeq(t, pos_lens[i].start + 1, pos_lens[i].end)
  <2>2. CASE i = n
    <3>3. SubSeq(u, a + 1, a + Len(l)) = l
      <4>1. a + Len(l) <= Len(u)
        BY <1>3, <1>4, <1>5, <1>6
      <4>2. \A k \in 1..Len(l) : u[a + k] = l[k]
        BY <1>4, <1>6
      <4> QED
        BY <1>4, <1>5, <1>6, <4>1, <4>2, ReadBack
    <3> QED
      BY <1>n, <2>2, <3>3
  <2>3. CASE i # n
    <3> DEFINE d == IF i > n THEN diff ELSE 0
               p == pos_lens[i].start
               q == pos_lens[i].end
    <3>1. pos_lens'[i].start = p + d /\ pos_lens'[i].end = q + d
      <4>1. /\ pos_lens'[i].start = p + IF i > n THEN diff ELSE 0
            /\ pos_lens'[i].end = q + IF i >= n THEN diff ELSE 0
        BY <1>7
      <4>2. i \in Nat /\ (i >= n <=> i > n)
        BY <1>1, <1>place, <2>3
      <4> QED
        BY <4>1, <4>2
    <3>2. p \in Nat /\ q \in Nat /\ p <= q /\ q + 1 <= Len(t)
      BY <1>1, <1>3
    <3>3. d \in Int /\ p + d >= 0 /\ q + d <= Len(u)
          /\ \A k \in p + 1..q : u[k + d] = t[k]
      <4>1. CASE i < n
        <5>1. d = 0 /\ q < a
          BY <1>1, <1>2, <4>1 DEF a
        <5>2. q <= Len(u)
          BY <1>3, <1>5, <1>6, <1>4, <3>2, <5>1
        <5>3. \A k \in p + 1..q : k \in 1..a /\ k + d = k
          BY <1>5, <3>2, <5>1
        <5> QED
          BY <1>6, <3>2, <5>1, <5>2, <5>3
      <4>2. CASE i > n
        <5>1. d = diff /\ b <= p
          BY <1>1, <1>2, <4>2 DEF b
        <5>2. \A k \in p + 1..q : k \in b + 1..Len(t)
          BY <1>3, <1>5, <3>2, <5>1
        <5>3. p + d >= 0 /\ q + d <= Len(u)
          <6>1. Len(u) = Len(t) + diff /\ Len(t) \in Nat /\ Len(r) \in Nat
            BY <1>3, <1>4, <1>6
          <6>2. diff = a + Len(r) - b /\ a \in Nat /\ b \in Nat
            BY <1>5
          <6> HIDE DEF d, p, q
          <6>3. d = a + Len(r) - b
            BY <5>1, <6>2
          <6> QED
            BY <3>2, <5>1, <6>1, <6>2, <6>3
        <5> QED
          BY <1>5, <1>6, <5>1, <5>2, <5>3
      <4> QED
        BY <1>1, <1>2, <2>3, <4>1, <4>2
    <3> HIDE DEF d, p, q
    <3>4. SubSeq(u, p + d + 1, q + d) = SubSeq(t, p + 1, q)
      BY <1>3, <1>6, <3>2, <3>3, SameMoved
    <3> QED
      BY <2>3, <3>1, <3>4 DEF p, q
  <2> QED
    BY <2>2, <2>3
<1>word. ASSUME NEW w \in DOMAIN dict
         PROVE  w = Name(SubSeq(u, pos_lens'[dict[w]].start + 1, pos_lens'[dict[w]].end))
  <2>1. CASE dict[w] = n
    BY <1>2, <1>8, <1>12, <2>1
  <2>2. CASE dict[w] # n
    BY <1>8, <1>9, <1>12, <2>2
  <2> QED
    BY <2>1, <2>2
<1>13. Covered'
  BY <1>7, <1>10 DEF Covered, u
<1>14. LinesTile'
  <2>1. dict' = dict /\ \A i \in 1..N : \E w \in DOMAIN dict' : dict'[w] = i
    BY <1>8 DEF Becomes
  <2> QED
    BY <1>7, <1>11, <1>word, <2>1 DEF LinesTile, u
<1>15. \A i \in 1..N : Displayed(i)' = IF i = n THEN l ELSE Displayed(i)
  BY <1>12 DEF Displayed, u, t
<1> QED
  BY <1>13, <1>14, <1>15 DEF N

-----------------------------------------------------------------------------
(* A line whose first word is new.                                         *)

\* A line is added after all others, which stay where they are.
LEMMA AddedOrdered ==
    ASSUME TypeOK, Ordered, NEW l \in Line, Name(l) \in Words, Added(l)
    PROVE  /\ pos_lens' \in Seq([start : Nat, end : Nat])
           /\ Len(pos_lens') = Len(pos_lens) + 1
           /\ \A i \in 1..Len(pos_lens) : pos_lens'[i] = pos_lens[i]
           /\ pos_lens'[Len(pos_lens) + 1].start =
                 (IF Len(pos_lens) = 0 THEN 0 ELSE pos_lens[Len(pos_lens)].end + 1)
           /\ pos_lens'[Len(pos_lens) + 1].end =
                 pos_lens'[Len(pos_lens) + 1].start + Len(l)
           /\ Ordered'
<1> DEFINE N == Len(pos_lens)
           start == IF N = 0 THEN 0 ELSE pos_lens[N].end + 1
           new == [start |-> start, end |-> start + Len(l)]
<1>1. /\ N \in Nat
      /\ \A i \in 1..N :
            /\ pos_lens[i].start \in Nat /\ pos_lens[i].end \in Nat
            /\ pos_lens[i].start <= pos_lens[i].end
      /\ \A i, j \in 1..N : i < j => pos_lens[i].end < pos_lens[j].start
  BY Positions
<1>2. Len(l) \in Nat
  BY LineType
<1>3. start \in Nat
  BY <1>1
<1>4. pos_lens' = Append(pos_lens, new) /\ pos_lens \in Seq([start : Nat, end : Nat])
  BY DEF Added, TypeOK
<1>5. new.start = start /\ new.end = start + Len(l)
  OBVIOUS
<1>6. new \in [start : Nat, end : Nat]
  BY <1>2, <1>3
<1> HIDE DEF new
<1>7. /\ pos_lens' \in Seq([start : Nat, end : Nat]) /\ Len(pos_lens') = N + 1
      /\ \A i \in 1..N : pos_lens'[i] = pos_lens[i]
      /\ pos_lens'[N + 1] = new
  BY <1>4, <1>6, AppendProperties
<1>8. \A i \in 1..N : pos_lens[i].end < start
  <2> TAKE i \in 1..N
  <2>1. N # 0 /\ N \in 1..N /\ start = pos_lens[N].end + 1
    BY <1>1
  <2>2. CASE i = N
    BY <1>1, <2>1, <2>2
  <2>3. CASE i # N
    <3>1. pos_lens[i].end < pos_lens[N].start /\ pos_lens[N].start <= pos_lens[N].end
      BY <1>1, <2>1, <2>3
    <3>2. pos_lens[i].end \in Nat /\ pos_lens[N].start \in Nat /\ pos_lens[N].end \in Nat
      BY <1>1, <2>1
    <3> QED
      BY <2>1, <3>1, <3>2
  <2> QED
    BY <2>2, <2>3
<1> HIDE DEF N, start
<1>9. ASSUME NEW i \in 1..N + 1
      PROVE  /\ pos_lens'[i].start <= pos_lens'[i].end
             /\ \A j \in 1..N + 1 : i < j => pos_lens'[i].end < pos_lens'[j].start
  <2>1. CASE i = N + 1
    BY <1>1, <1>2, <1>3, <1>5, <1>7, <2>1
  <2>2. CASE i \in 1..N
    <3>1. ASSUME NEW j \in 1..N + 1, i < j PROVE pos_lens'[i].end < pos_lens'[j].start
      <4>1. CASE j = N + 1
        BY <1>5, <1>7, <1>8, <2>2, <4>1
      <4>2. CASE j \in 1..N
        BY <1>1, <1>7, <2>2, <3>1, <4>2
      <4> QED
        BY <1>1, <4>1, <4>2
    <3> QED
      BY <1>1, <1>7, <2>2, <3>1
  <2> QED
    BY <1>1, <2>1, <2>2
<1>10. DOMAIN pos_lens' = 1..N + 1
  BY <1>7, LenProperties
<1>11. Ordered'
  BY <1>9, <1>10 DEF Ordered
<1> QED
  BY <1>5, <1>7, <1>11 DEF N, start

\* Where the lines are once l was added.
LEMMA TilesAdded ==
    ASSUME IInv, run, replace, ~touched,
           NEW l \in Line, Name(l) \in Words, Name(l) \notin DOMAIN dict, Added(l)
    PROVE  /\ Covered' /\ LinesTile'
           /\ \A i \in 1..Len(pos_lens) + 1 :
                 Displayed(i)' = IF i = Len(pos_lens) + 1 THEN l ELSE Displayed(i)
<1> DEFINE N == Len(pos_lens)
           t == text["stdout"]
           u == text'["stdout"]
           r == Append(l, NewLine)
           start == IF N = 0 THEN 0 ELSE pos_lens[N].end + 1
<1>1. /\ N \in Nat /\ DOMAIN pos_lens = 1..N
      /\ \A i \in 1..N :
            /\ pos_lens[i].start \in Nat /\ pos_lens[i].end \in Nat
            /\ pos_lens[i].start <= pos_lens[i].end
  BY Positions DEF IInv
<1>2. t \in Seq(Chars) /\ \A i \in 1..N : pos_lens[i].end + 1 <= Len(t)
  BY InText
<1>3. /\ l \in Seq(Chars) /\ Len(l) \in Nat /\ r \in Seq(Chars) /\ Len(r) = Len(l) + 1
      /\ \A i \in 1..Len(l) : r[i] = l[i]
      /\ r[Len(l) + 1] = NewLine
  BY LineType
<1>4. Len(t) = start
  <2>1. pos_lens = <<>> <=> N = 0
    <3>1. pos_lens \in Seq([start : Nat, end : Nat])
      BY DEF IInv, TypeOK
    <3> QED
      BY <3>1, EmptySeq
  <2> QED
    BY <2>1 DEF IInv, Covered
<1>5. /\ u \in Seq(Chars) /\ Len(u) = Len(t) + Len(r)
      /\ \A i \in 1..Len(t) : u[i] = t[i]
      /\ \A i \in 1..Len(r) : u[Len(t) + i] = r[i]
  <2>1. u = t \o r
    BY DEF Added, IInv, TypeOK, ViewsTypeOK, Views
  <2>2. t \in Seq(Chars) /\ r \in Seq(Chars)
    BY <1>2, <1>3
  <2> HIDE DEF t, u, r
  <2> QED
    BY <2>1, <2>2, ConcatSides
<1>6. /\ Len(pos_lens') = N + 1
      /\ \A i \in 1..N : pos_lens'[i] = pos_lens[i]
      /\ pos_lens'[N + 1].start = start
      /\ pos_lens'[N + 1].end = start + Len(l)
  BY AddedOrdered DEF IInv
<1>7. DOMAIN pos_lens' = 1..N + 1
  <2>1. pos_lens' \in Seq([start : Nat, end : Nat])
    BY AddedOrdered DEF IInv
  <2> QED
    BY <1>6, <2>1, LenProperties
<1>8. /\ \A i \in 1..N : pos_lens[i].start = IF i = 1 THEN 0 ELSE pos_lens[i - 1].end + 1
      /\ \A i \in 1..N : t[pos_lens[i].end + 1] = NewLine
      /\ \A i \in 1..N : \E w \in DOMAIN dict : dict[w] = i
      /\ \A w \in DOMAIN dict :
            w = Name(SubSeq(t, pos_lens[dict[w]].start + 1, pos_lens[dict[w]].end))
  BY <1>1 DEF IInv, LinesTile
<1>9. /\ \A w \in DOMAIN dict : dict[w] \in 1..N
      /\ DOMAIN dict' = DOMAIN dict \union {Name(l)}
      /\ \A w \in DOMAIN dict : dict'[w] = dict[w]
      /\ dict'[Name(l)] = N + 1
  BY DEF IInv, TypeOK, Added
<1> HIDE DEF t, u, r
<1>start. start \in Nat /\ (N # 0 => start = pos_lens[N].end + 1)
  BY <1>1
<1>10. Len(u) = IF pos_lens' = <<>> THEN 0 ELSE pos_lens'[N + 1].end + 1
  <2>1. pos_lens' # <<>>
    BY <1>1, <1>6
  <2>2. Len(u) = start + Len(l) + 1
    <3>1. Len(u) = Len(t) + Len(r) /\ Len(r) = Len(l) + 1 /\ Len(l) \in Nat
      BY <1>3, <1>5
    <3> HIDE DEF start
    <3> QED
      BY <1>4, <1>start, <3>1
  <2> QED
    BY <1>6, <2>1, <2>2
<1> HIDE DEF start, N
<1>11. ASSUME NEW i \in 1..N + 1
       PROVE  /\ pos_lens'[i].start = IF i = 1 THEN 0 ELSE pos_lens'[i - 1].end + 1
              /\ u[pos_lens'[i].end + 1] = NewLine
              /\ \E w \in DOMAIN dict' : dict'[w] = i
  <2>1. CASE i = N + 1
    <3>1. pos_lens'[i].start = IF i = 1 THEN 0 ELSE pos_lens'[i - 1].end + 1
      <4>1. CASE N = 0
        BY <1>6, <2>1, <4>1 DEF start
      <4>2. CASE N # 0
        BY <1>1, <1>start, <1>6, <2>1, <4>2
      <4> QED
        BY <4>1, <4>2
    <3>2. u[pos_lens'[i].end + 1] = NewLine
      <4>1. Len(l) + 1 \in 1..Len(r) /\ Len(t) + (Len(l) + 1) = start + Len(l) + 1
        BY <1>3, <1>4, <1>start
      <4> QED
        BY <1>3, <1>5, <1>6, <2>1, <4>1
    <3> QED
      BY <1>9, <2>1, <3>1, <3>2
  <2>2. CASE i \in 1..N
    <3>1. pos_lens'[i].start = IF i = 1 THEN 0 ELSE pos_lens'[i - 1].end + 1
      <4>1. CASE i = 1
        BY <1>6, <1>8, <2>2, <4>1
      <4>2. CASE i # 1
        <5>1. i - 1 \in 1..N
          BY <1>1, <2>2, <4>2
        <5> QED
          BY <1>6, <1>8, <2>2, <4>2, <5>1
      <4> QED
        BY <4>1, <4>2
    <3>2. u[pos_lens'[i].end + 1] = NewLine
      <4>1. pos_lens[i].end + 1 \in 1..Len(t)
        BY <1>1, <1>2, <2>2
      <4> QED
        BY <1>5, <1>6, <1>8, <2>2, <4>1
    <3> QED
      BY <1>8, <1>9, <2>2, <3>1, <3>2
  <2> QED
    BY <1>1, <2>1, <2>2
<1>12. ASSUME NEW i \in 1..N
       PROVE  SubSeq(u, pos_lens'[i].start + 1, pos_lens'[i].end) =
                 SubSeq(t, pos_lens[i].start + 1, pos_lens[i].end)
  <2> DEFINE p == pos_lens[i].start
             q == pos_lens[i].end
  <2>1. p \in Nat /\ q \in Nat /\ p <= q /\ q <= Len(t)
    BY <1>1, <1>2
  <2>2. pos_lens'[i] = pos_lens[i]
    BY <1>6
  <2> HIDE DEF p, q
  <2>3. SubSeq(u, p + 1, q) = SubSeq(t, p + 1, q)
    <3>1. /\ 0 \in Int /\ p + 0 >= 0 /\ q + 0 <= Len(u)
          /\ \A k \in p + 1..q : u[k + 0] = t[k]
      <4>1. Len(t) <= Len(u)
        BY <1>2, <1>3, <1>5
      <4>2. \A k \in p + 1..q : k \in 1..Len(t) /\ k + 0 = k
        BY <1>2, <2>1
      <4>3. Len(t) \in Nat /\ Len(u) \in Nat
        BY <1>2, <1>5
      <4>4. \A k \in p + 1..q : u[k + 0] = t[k]
        BY <1>5, <4>2
      <4> QED
        BY <2>1, <4>1, <4>3, <4>4
    <3>2. SubSeq(u, p + 0 + 1, q + 0) = SubSeq(t, p + 1, q)
      BY <1>2, <1>5, <2>1, <3>1, SameMoved
    <3>3. p + 0 + 1 = p + 1 /\ q + 0 = q
      BY <2>1
    <3> QED
      BY <3>2, <3>3
  <2> QED
    BY <2>2, <2>3 DEF p, q
<1>new. SubSeq(u, pos_lens'[N + 1].start + 1, pos_lens'[N + 1].end) = l
  <2>1. SubSeq(u, start + 1, start + Len(l)) = l
    <3>1. start + Len(l) <= Len(u)
      BY <1>3, <1>4, <1>5, <1>start
    <3>2. \A k \in 1..Len(l) : u[start + k] = l[k]
      BY <1>3, <1>4, <1>5
    <3> QED
      BY <1>3, <1>5, <1>start, <3>1, <3>2, ReadBack
  <2> QED
    BY <1>6, <2>1
<1>word. ASSUME NEW w \in DOMAIN dict'
         PROVE  w = Name(SubSeq(u, pos_lens'[dict'[w]].start + 1, pos_lens'[dict'[w]].end))
  <2>1. CASE w \in DOMAIN dict
    BY <1>8, <1>9, <1>12, <2>1
  <2>2. CASE w = Name(l)
    BY <1>9, <1>new, <2>2
  <2> QED
    BY <1>9, <2>1, <2>2
<1>13. Covered'
  BY <1>6, <1>10 DEF Covered, u
<1>14. LinesTile'
  BY <1>7, <1>11, <1>word DEF LinesTile, u
<1>15. ASSUME NEW i \in 1..N + 1
       PROVE  Displayed(i)' = IF i = N + 1 THEN l ELSE Displayed(i)
  <2>1. CASE i = N + 1
    BY <1>new, <2>1 DEF Displayed, u
  <2>2. CASE i # N + 1
    <3>1. i \in 1..N
      BY <1>1, <2>2
    <3> QED
      BY <1>12, <2>2, <3>1 DEF Displayed, u, t
  <2> QED
    BY <2>1, <2>2
<1> QED
  BY <1>13, <1>14, <1>15 DEF N

-----------------------------------------------------------------------------
(* Every step.                                                             *)

\* There are no lines at the start.
LEMMA InitIInv == Init => IInv
<1> SUFFICES ASSUME Init PROVE IInv
  OBVIOUS
<1>1. ViewsTypeOK
  <2>1. <<>> \in Seq(Chars)
    OBVIOUS
  <2>2. text \in [Views -> Seq(Chars)]
    BY <2>1, Zenon DEF Init
  <2> QED
    BY <2>2 DEF Init, ViewsTypeOK
<1>2. /\ cur_line \in Seq(Letters \union {Space}) /\ Len(cur_line) <= LineSize
      /\ heard \in Seq(Seq(Letters \union {Space}))
      /\ partial \in Seq(Letters \union {Space})
      /\ pos_lens \in Seq([start : Nat, end : Nat])
  BY LineAssumption DEF Init
<1>3. DOMAIN dict = {} /\ DOMAIN pos_lens = {}
  BY DEF Init
<1>4. TypeOK
  BY <1>1, <1>2, <1>3 DEF TypeOK, Init
<1> QED
  BY <1>3, <1>4 DEF IInv, Ordered, NoLinesBetween, Covered, LinesTile, Init

\* What a step that leaves the lines alone has to keep.
LEMMA LinesUntouched ==
    ASSUME IInv, TypeOK', UNCHANGED <<run, replace, text, dict, pos_lens, touched>>
    PROVE  IInv'
<1> USE DEF IInv
<1>1. Ordered'
  BY DEF Ordered
<1>2. NoLinesBetween' /\ Covered'
  BY DEF NoLinesBetween, Covered
<1>3. LinesTile'
  BY DEF LinesTile
<1> QED
  BY <1>1, <1>2, <1>3

\* Without lines there is nothing to keep.
LEMMA NoLines ==
    ASSUME TypeOK', pos_lens' = <<>>, dict' = <<>>,
           run' /\ replace' => text'["stdout"] = <<>>
    PROVE  IInv'
<1>1. DOMAIN pos_lens' = {} /\ DOMAIN dict' = {}
  OBVIOUS
<1>2. Ordered' /\ LinesTile'
  BY <1>1 DEF Ordered, LinesTile
<1>3. NoLinesBetween' /\ Covered'
  BY DEF NoLinesBetween, Covered
<1> QED
  BY <1>2, <1>3 DEF IInv

\* What is printed while a line is not complete.
LEMMA LineCharStep ==
    ASSUME IInv, NEW c \in Chars \ {NewLine}, LineChar(c), UNCHANGED <<run, replace, carried>>
    PROVE  IInv'
<1>1. c \in Letters \union {Space}
  BY DEF Chars
<1>2. UNCHANGED <<text, dict, pos_lens, touched, heard>>
  BY DEF LineChar, Overflow
<1>3. /\ cur_line' \in Seq(Letters \union {Space}) /\ Len(cur_line') <= LineSize
      /\ fault' \in {"none", "index", "pointer", "overflow"}
  <2>1. /\ cur_line \in Seq(Letters \union {Space}) /\ Len(cur_line) <= LineSize
        /\ fault \in {"none", "index", "pointer", "overflow"}
    BY DEF IInv, TypeOK, ViewsTypeOK
  <2>2. CASE Len(cur_line) = LineSize
    BY <2>1, <2>2 DEF LineChar, Overflow
  <2>3. CASE Len(cur_line) # LineSize
    <3>1. /\ cur_line' = Append(cur_line, c) /\ fault' = fault
      BY <2>3 DEF LineChar
    <3>2. Len(cur_line') = Len(cur_line) + 1 /\ cur_line' \in Seq(Letters \union {Space})
      BY <1>1, <2>1, <3>1, AppendProperties
    <3>3. Len(cur_line) \in Nat
      BY <2>1
    <3> QED
      BY <2>1, <2>3, <3>1, <3>2, <3>3, LineAssumption
  <2> QED
    BY <2>2, <2>3
<1>4. partial' \in Seq(Letters \union {Space})
  BY <1>1, AppendProperties DEF LineChar, IInv, TypeOK
<1>5. TypeOK'
  BY <1>2, <1>3, <1>4 DEF IInv, TypeOK, ViewsTypeOK
<1> QED
  BY <1>2, <1>5, LinesUntouched

\* A text with some characters replaced is a text, wherever they are.
LEMMA SpliceType ==
    ASSUME NEW S, NEW s \in Seq(S), NEW r \in Seq(S), NEW a \in Nat, NEW b \in Nat
    PROVE  Splice(s, a, b, r) \in Seq(S)
<1> DEFINE n == IF a < Len(s) THEN a ELSE Len(s)
           head == SubSeq(s, 1, n)
           tail == SubSeq(s, b + 1, Len(s))
<1>1. head \in Seq(S)
  <2>1. n \in Nat /\ \A i \in 1..n : s[i] \in S
    OBVIOUS
  <2> HIDE DEF n
  <2> QED
    BY <2>1, SubSeqProperties
<1>2. tail \in Seq(S)
  <2>1. \A i \in b + 1..Len(s) : s[i] \in S
    OBVIOUS
  <2> QED
    BY <2>1, SubSeqProperties
<1>3. Splice(s, a, b, r) = (head \o r) \o tail
  BY DEF Splice
<1> HIDE DEF head, tail
<1>4. head \o r \in Seq(S)
  BY <1>1, ConcatProperties
<1> QED
  BY <1>2, <1>3, <1>4, ConcatProperties

\* A replacement, with or without the focus.
LEMMA ReplacedStep ==
    ASSUME IInv, run, replace, UNCHANGED <<run, replace>>,
           NEW l \in Line, Name(l) \in DOMAIN dict, Replaced(l)
    PROVE  /\ Ordered' /\ NoLinesBetween' /\ Covered' /\ LinesTile'
           /\ pos_lens' \in Seq([start : Nat, end : Nat])
           /\ \A w \in DOMAIN dict' : dict'[w] \in 1..Len(pos_lens')
           /\ DOMAIN dict' \subseteq Words
           /\ text' \in [Views -> Seq(Chars)]
           /\ touched' \in BOOLEAN
<1> DEFINE n == dict[Name(l)]
<1>1. n \in DOMAIN pos_lens /\ pos_lens \in Seq([start : Nat, end : Nat])
  BY Positions DEF IInv, TypeOK
<1>2. /\ dict' = dict
      /\ pos_lens' = [i \in DOMAIN pos_lens |->
                         Shifted(i, n, pos_lens[n].start + Len(l) - pos_lens[n].end)]
  BY DEF Replaced
<1>3. Len(l) \in Nat
  BY LineType
<1>4. /\ pos_lens' \in Seq([start : Nat, end : Nat]) /\ Len(pos_lens') = Len(pos_lens)
      /\ Ordered'
  BY <1>1, <1>2, <1>3, ShiftedOrdered DEF IInv
<1>5. PICK focus \in BOOLEAN :
          /\ touched' = (touched \/ focus)
          /\ \E t \in Inserted(focus, pos_lens[n].start, pos_lens[n].end + 1,
                               Append(l, NewLine)) :
                text' = [text EXCEPT !["stdout"] = t]
  BY DEF Replaced
<1>6. text' \in [Views -> Seq(Chars)]
  <2> DEFINE s == text["stdout"]
             r == Append(l, NewLine)
  <2>1. PICK t \in Inserted(focus, pos_lens[n].start, pos_lens[n].end + 1, r) :
            text' = [text EXCEPT !["stdout"] = t]
    BY <1>5
  <2>2. s \in Seq(Chars) /\ r \in Seq(Chars)
    BY LineType DEF IInv, TypeOK, ViewsTypeOK, Views
  <2>3. pos_lens[n].start \in Nat /\ pos_lens[n].end + 1 \in Nat
    BY <1>1, Positions DEF IInv
  <2>4. \E a, b \in Nat : t = Splice(s, a, b, r)
    <3>1. CASE ~focus
      BY <2>1, <2>3, <3>1 DEF Inserted
    <3>2. CASE focus
      <4>1. PICK a \in 0..Len(s) : t \in {Splice(s, a, b, r) : b \in a..Len(s)}
        BY <2>1, <3>2 DEF Inserted
      <4>2. PICK b \in a..Len(s) : t = Splice(s, a, b, r)
        BY <4>1
      <4>3. a \in Nat /\ b \in Nat
        BY <2>2
      <4> QED
        BY <4>2, <4>3
    <3> QED
      BY <3>1, <3>2
  <2> HIDE DEF r, s
  <2>5. t \in Seq(Chars)
    BY <2>2, <2>4, SpliceType
  <2> QED
    BY <2>1, <2>5 DEF IInv, TypeOK, ViewsTypeOK
<1>7. Covered' /\ LinesTile'
  <2>1. CASE touched'
    BY <2>1 DEF Covered, LinesTile
  <2>2. CASE ~touched'
    <3>1. ~touched /\ ~focus
      BY <1>5, <2>2
    <3>2. text'["stdout"] = Splice(text["stdout"], pos_lens[n].start,
                                   pos_lens[n].end + 1, Append(l, NewLine))
      BY <1>5, <3>1 DEF Inserted, IInv, TypeOK, ViewsTypeOK, Views
    <3>3. Becomes(n, l)
      BY <1>2, <3>2 DEF Becomes
    <3> QED
      BY <3>1, <3>3, TilesReplaced
  <2> QED
    BY <2>1, <2>2
<1>8. /\ \A w \in DOMAIN dict' : dict'[w] \in 1..Len(pos_lens')
      /\ DOMAIN dict' \subseteq Words
  BY <1>2, <1>4 DEF IInv, TypeOK
<1>9. NoLinesBetween' /\ touched' \in BOOLEAN
  BY <1>5 DEF NoLinesBetween, IInv, TypeOK
<1> QED
  BY <1>4, <1>6, <1>7, <1>8, <1>9

\* A new line.
LEMMA AddedStep ==
    ASSUME IInv, run, replace, UNCHANGED <<run, replace>>,
           NEW l \in Line, Name(l) \in Words, Name(l) \notin DOMAIN dict, Added(l)
    PROVE  /\ Ordered' /\ NoLinesBetween' /\ Covered' /\ LinesTile'
           /\ pos_lens' \in Seq([start : Nat, end : Nat])
           /\ \A w \in DOMAIN dict' : dict'[w] \in 1..Len(pos_lens')
           /\ DOMAIN dict' \subseteq Words
           /\ text' \in [Views -> Seq(Chars)]
           /\ touched' \in BOOLEAN
<1>1. /\ pos_lens' \in Seq([start : Nat, end : Nat]) /\ Ordered'
      /\ Len(pos_lens') = Len(pos_lens) + 1
  BY AddedOrdered DEF IInv
<1>2. touched' = touched /\ touched \in BOOLEAN
  BY DEF Added, IInv, TypeOK
<1>3. Covered' /\ LinesTile'
  <2>1. CASE touched
    BY <1>2, <2>1 DEF Covered, LinesTile
  <2>2. CASE ~touched
    BY <2>2, TilesAdded
  <2> QED
    BY <2>1, <2>2
<1>4. text' \in [Views -> Seq(Chars)]
  <2>1. /\ text' = [text EXCEPT !["stdout"] = @ \o Append(l, NewLine)]
        /\ text \in [Views -> Seq(Chars)] /\ "stdout" \in Views
    BY DEF Added, IInv, TypeOK, ViewsTypeOK, Views
  <2>2. text["stdout"] \o Append(l, NewLine) \in Seq(Chars)
    BY <2>1, LineType, ConcatProperties
  <2> QED
    BY <2>1, <2>2
<1>5. Len(pos_lens) \in Nat
  BY Positions DEF IInv
<1>6. /\ DOMAIN dict' = DOMAIN dict \union {Name(l)}
      /\ \A w \in DOMAIN dict' :
            dict'[w] = IF w \in DOMAIN dict THEN dict[w] ELSE Len(pos_lens) + 1
  BY DEF Added
<1>7. /\ \A w \in DOMAIN dict' : dict'[w] \in 1..Len(pos_lens')
      /\ DOMAIN dict' \subseteq Words
  BY <1>1, <1>5, <1>6 DEF IInv, TypeOK
<1> QED
  BY <1>1, <1>2, <1>3, <1>4, <1>7 DEF NoLinesBetween

\* The end of a line.
LEMMA LineEndStep ==
    ASSUME IInv, run, replace, LineEnd, UNCHANGED <<run, replace, carried>>
    PROVE  IInv'
<1>1. /\ cur_line \in Line /\ partial \in Line /\ heard \in Seq(Line)
      /\ run \in BOOLEAN /\ replace \in BOOLEAN /\ carried \in BOOLEAN
      /\ fault \in {"none", "index", "pointer", "overflow"}
  BY DEF IInv, TypeOK, ViewsTypeOK, Line
<1>2. heard' \in Seq(Line) /\ partial' \in Line
  BY <1>1, AppendProperties DEF LineEnd, Line
<1>3. CASE Overflow
  <2>1. UNCHANGED <<text, cur_line, dict, pos_lens, touched>> /\ fault' = "overflow"
    BY <1>3 DEF Overflow
  <2>2. TypeOK'
    BY <1>1, <1>2, <2>1 DEF IInv, TypeOK, ViewsTypeOK, Line
  <2> QED
    BY <2>1, <2>2, LinesUntouched
<1>4. CASE /\ ~(Len(Name(cur_line)) >= NameSize)
           /\ IF Name(cur_line) \in DOMAIN dict THEN Replaced(cur_line)
                                                ELSE Added(cur_line)
           /\ cur_line' = <<>> /\ UNCHANGED fault
  <2>1. /\ Ordered' /\ NoLinesBetween' /\ Covered' /\ LinesTile'
        /\ pos_lens' \in Seq([start : Nat, end : Nat])
        /\ \A w \in DOMAIN dict' : dict'[w] \in 1..Len(pos_lens')
        /\ DOMAIN dict' \subseteq Words
        /\ text' \in [Views -> Seq(Chars)]
        /\ touched' \in BOOLEAN
    <3>1. CASE Name(cur_line) \in DOMAIN dict
      BY <1>1, <1>4, <3>1, ReplacedStep
    <3>2. CASE Name(cur_line) \notin DOMAIN dict
      <4>1. Name(cur_line) \in Words
        BY <1>1, <1>4, NameFits
      <4>2. Added(cur_line)
        BY <1>4, <3>2
      <4> QED
        BY <1>1, <3>2, <4>1, <4>2, AddedStep
    <3> QED
      BY <3>1, <3>2
  <2>2. cur_line' \in Line /\ Len(cur_line') <= LineSize
    BY <1>4, LineAssumption DEF Line
  <2>3. TypeOK'
    BY <1>1, <1>2, <1>4, <2>1, <2>2 DEF TypeOK, ViewsTypeOK, Line
  <2> QED
    BY <2>1, <2>3 DEF IInv
<1> QED
  BY <1>3, <1>4 DEF LineEnd

\* Every action keeps the invariant.
LEMMA StepIInv == IInv /\ [Next]_vars => IInv'
<1> SUFFICES ASSUME IInv, [Next]_vars PROVE IInv'
  OBVIOUS
<1>type. /\ TypeOK /\ NoLinesBetween
         /\ run \in BOOLEAN /\ replace \in BOOLEAN /\ "stdout" \in Views
         /\ text \in [Views -> Seq(Chars)]
  BY DEF IInv, TypeOK, ViewsTypeOK, Views
<1>1. ASSUME NEW c \in Chars, ReplaceResult(c) PROVE IInv'
  <2>1. CASE c = NewLine
    BY <1>1, <2>1, LineEndStep DEF ReplaceResult
  <2>2. CASE c # NewLine
    BY <1>1, <2>2, LineCharStep DEF ReplaceResult
  <2> QED
    BY <2>1, <2>2
<1>2. ASSUME NEW c \in Chars, WriteResult(c) PROVE IInv'
  <2>1. text' \in [Views -> Seq(Chars)]
    <3>1. Append(text["stdout"], c) \in Seq(Chars)
      BY <1>type, AppendProperties
    <3> QED
      BY <1>2, <1>type, <3>1 DEF WriteResult
  <2>2. TypeOK'
    BY <1>2, <1>type, <2>1 DEF WriteResult, lineVars, TypeOK, ViewsTypeOK
  <2> QED
    BY <1>2, <1>type, <2>2, NoLines DEF WriteResult, lineVars, NoLinesBetween
<1>3. CASE ReplaceLine
  <2>1. TypeOK'
    BY <1>3, <1>type DEF ReplaceLine, TypeOK, ViewsTypeOK
  <2> QED
    BY <1>3, <1>type, <2>1, NoLines DEF ReplaceLine, NoLinesBetween
<1>4. ASSUME NEW command \in BOOLEAN, OnRun(command) PROVE IInv'
  <2>1. text' \in [Views -> Seq(Chars)] /\ text'["stdout"] = <<>>
    <3>1. <<>> \in Seq(Chars)
      OBVIOUS
    <3>2. text' = [v \in Views |-> <<>>]
      BY <1>4 DEF OnRun
    <3> QED
      BY <1>type, <3>1, <3>2, Zenon
  <2>2. pos_lens = <<>> /\ dict = <<>>
    BY <1>4, <1>type DEF OnRun, NoLinesBetween
  <2>3. pos_lens' = <<>> /\ dict' = <<>>
    BY <1>4, <2>2 DEF OnRun
  <2>4. DOMAIN dict' = {} /\ pos_lens' \in Seq([start : Nat, end : Nat])
    BY <2>3
  <2>5. /\ heard' \in Seq(Seq(Letters \union {Space}))
        /\ partial' \in Seq(Letters \union {Space})
        /\ carried' \in BOOLEAN /\ touched' \in BOOLEAN
    <3>1. heard' = <<>> /\ partial' = <<>> /\ touched' = FALSE
      BY <1>4 DEF OnRun
    <3>2. carried' = (cur_line # <<>>)
      BY <1>4 DEF OnRun
    <3>3. carried' \in BOOLEAN
      BY <3>2, Zenon
    <3>4. /\ heard' \in Seq(Seq(Letters \union {Space}))
          /\ partial' \in Seq(Letters \union {Space})
      BY <3>1
    <3>5. touched' \in BOOLEAN
      BY <3>1
    <3> QED
      BY <3>3, <3>4, <3>5
  <2>6. TypeOK'
    BY <1>4, <1>type, <2>1, <2>4, <2>5 DEF OnRun, TypeOK, ViewsTypeOK
  <2> QED
    BY <2>1, <2>3, <2>6, NoLines
<1>5. CASE RunEnd
  <2>1. pos_lens' = <<>> /\ dict' = <<>>
    BY <1>5, <1>type DEF RunEnd, NoLinesBetween
  <2>2. DOMAIN dict' = {} /\ pos_lens' \in Seq([start : Nat, end : Nat])
    BY <2>1
  <2>3. TypeOK'
    BY <1>5, <1>type, <2>2 DEF RunEnd, TypeOK, ViewsTypeOK
  <2> QED
    BY <1>5, <2>1, <2>3, NoLines DEF RunEnd
<1>6. CASE UNCHANGED vars
  <2>1. TypeOK'
    BY <1>6, <1>type DEF vars, lineVars, TypeOK, ViewsTypeOK
  <2> QED
    BY <1>6, <2>1, LinesUntouched DEF vars, lineVars
<1> QED
  BY <1>1, <1>2, <1>3, <1>4, <1>5, <1>6 DEF Next

\* The invariant holds in every state of the program.
LEMMA Invariance == Spec => []IInv
  BY InitIInv, StepIInv, PTL DEF Spec

\* Positions are never negative, although a replacement subtracts from them,
\* and dict names only lines that there are.
THEOREM TypeCorrect == Spec => []TypeOK
<1>1. IInv => TypeOK
  BY DEF IInv
<1> QED
  BY Invariance, <1>1, PTL

\* pos_lens is where the lines are, after any sequence of longer and shorter
\* replacements, of a run during which no line was replaced in a view that
\* had the focus.
THEOREM LinesTileTheorem == Spec => []LinesTile
<1>1. IInv => LinesTile
  BY DEF IInv
<1> QED
  BY Invariance, <1>1, PTL

-----------------------------------------------------------------------------
(* The lines displayed are the latest.                                     *)

\* A further line is a first one if its word is new.
LEMMA FirstsAppend ==
    ASSUME heard \in Seq(Line), NEW l \in Line, heard' = Append(heard, l)
    PROVE  /\ Firsts \subseteq 1..Len(heard)
           /\ (\E j \in DOMAIN heard : Name(heard[j]) = Name(l)) => Firsts' = Firsts
           /\ (\A j \in DOMAIN heard : Name(heard[j]) # Name(l)) =>
                 Firsts' = Firsts \union {Len(heard) + 1}
<1> DEFINE n == Len(heard)
<1>1. /\ n \in Nat /\ DOMAIN heard = 1..n /\ DOMAIN heard' = 1..n + 1
      /\ heard'[n + 1] = l /\ \A j \in 1..n : heard'[j] = heard[j]
  <2>1. n \in Nat /\ DOMAIN heard = 1..n
    BY LenProperties
  <2>2. /\ heard' \in Seq(Line) /\ Len(heard') = n + 1
        /\ heard'[n + 1] = l /\ \A j \in 1..n : heard'[j] = heard[j]
    BY AppendProperties
  <2>3. DOMAIN heard' = 1..n + 1
    BY <2>2, LenProperties
  <2> QED
    BY <2>1, <2>2, <2>3
<1> HIDE DEF n
<1>2. Firsts \subseteq 1..n
  BY <1>1 DEF Firsts
<1>3. \A j \in 1..n : j \in Firsts' <=> j \in Firsts
  <2> TAKE j \in 1..n
  <2>1. \A k \in 1..j - 1 : k \in 1..n
    BY <1>1
  <2>2. /\ j \in Firsts <=> \A k \in 1..j - 1 : Name(heard[k]) # Name(heard[j])
        /\ j \in Firsts' <=> \A k \in 1..j - 1 : Name(heard'[k]) # Name(heard'[j])
    BY <1>1 DEF Firsts
  <2> QED
    BY <1>1, <2>1, <2>2
<1>4. n + 1 \in Firsts' <=> \A k \in 1..n : Name(heard[k]) # Name(l)
  <2>1. n + 1 \in 1..n + 1 /\ (n + 1) - 1 = n
    BY <1>1
  <2>2. n + 1 \in Firsts' <=> \A k \in 1..n : Name(heard'[k]) # Name(heard'[n + 1])
    BY <1>1, <2>1 DEF Firsts
  <2> QED
    BY <1>1, <2>2
<1>5. Firsts' \subseteq 1..n + 1
  BY <1>1 DEF Firsts
<1>6. 1..n + 1 = (1..n) \union {n + 1}
  BY <1>1
<1>7. ASSUME \E j \in 1..n : Name(heard[j]) = Name(l)
      PROVE  Firsts' = Firsts
  <2>1. n + 1 \notin Firsts'
    BY <1>4, <1>7
  <2> QED
    BY <1>2, <1>3, <1>5, <1>6, <2>1
<1>8. ASSUME \A j \in 1..n : Name(heard[j]) # Name(l)
      PROVE  Firsts' = Firsts \union {n + 1}
  <2>1. n + 1 \in Firsts'
    BY <1>4, <1>8
  <2> QED
    BY <1>2, <1>3, <1>5, <1>6, <2>1
<1> QED
  BY <1>1, <1>2, <1>7, <1>8, Zenon DEF n

\* A further line is the last with its word, and takes that from no other word.
LEMMA LastAppend ==
    ASSUME heard \in Seq(Line), NEW l \in Line, heard' = Append(heard, l)
    PROVE  /\ DOMAIN heard' = DOMAIN heard \union {Len(heard) + 1}
           /\ heard'[Len(heard) + 1] = l
           /\ \A j \in DOMAIN heard : heard'[j] = heard[j]
           /\ \A j, w : j = Len(heard) + 1 /\ w = Name(l) => IsLastWith(j, w)'
           /\ \A j, w : IsLastWith(j, w) /\ w # Name(l) => IsLastWith(j, w)'
<1> DEFINE n == Len(heard)
<1>1. /\ n \in Nat /\ DOMAIN heard = 1..n /\ DOMAIN heard' = 1..n + 1
      /\ Len(heard') = n + 1
      /\ heard'[n + 1] = l /\ \A j \in 1..n : heard'[j] = heard[j]
  <2>1. n \in Nat /\ DOMAIN heard = 1..n
    BY LenProperties
  <2>2. /\ heard' \in Seq(Line) /\ Len(heard') = n + 1
        /\ heard'[n + 1] = l /\ \A j \in 1..n : heard'[j] = heard[j]
    BY AppendProperties
  <2>3. DOMAIN heard' = 1..n + 1
    BY <2>2, LenProperties
  <2> QED
    BY <2>1, <2>2, <2>3
<1> HIDE DEF n
<1>2. ASSUME NEW j, NEW w, j = n + 1, w = Name(l)
      PROVE  IsLastWith(j, w)'
  <2>1. j \in 1..n + 1 /\ j + 1..n + 1 = {}
    BY <1>1, <1>2
  <2> QED
    BY <1>1, <1>2, <2>1 DEF IsLastWith
<1>3. ASSUME NEW j, NEW w, IsLastWith(j, w), w # Name(l)
      PROVE  IsLastWith(j, w)'
  <2>1. /\ j \in 1..n /\ Name(heard[j]) = w
        /\ \A m \in j + 1..n : Name(heard[m]) # w
    BY <1>1, <1>3 DEF IsLastWith, n
  <2>2. j \in 1..n + 1 /\ Name(heard'[j]) = w
    BY <1>1, <2>1
  <2>3. ASSUME NEW m \in j + 1..n + 1 PROVE Name(heard'[m]) # w
    <3>1. CASE m = n + 1
      BY <1>1, <1>3, <3>1
    <3>2. CASE m # n + 1
      <4>1. m \in j + 1..n /\ m \in 1..n
        BY <1>1, <2>1, <3>2
      <4> QED
        BY <1>1, <2>1, <4>1
    <3> QED
      BY <3>1, <3>2
  <2> QED
    BY <1>1, <2>2, <2>3 DEF IsLastWith
<1>4. 1..n + 1 = (1..n) \union {n + 1}
  BY <1>1
<1> QED
  BY <1>1, <1>2, <1>3, <1>4 DEF n

\* The numbers of the words do not change with a line whose word is known.
LEMMA NumberedKnown ==
    ASSUME heard \in Seq(Line), NEW l \in Line, heard' = Append(heard, l),
           Numbered, Name(l) \in DOMAIN dict, dict' = dict,
           \E j \in DOMAIN heard : Name(heard[j]) = Name(l),
           Len(pos_lens') = Len(pos_lens)
    PROVE  Numbered'
<1>1. /\ DOMAIN heard' = DOMAIN heard \union {Len(heard) + 1}
      /\ heard'[Len(heard) + 1] = l
      /\ \A j \in DOMAIN heard : heard'[j] = heard[j]
  BY LastAppend
<1>3. Firsts' = Firsts /\ Firsts \subseteq DOMAIN heard
  <2>1. Firsts' = Firsts
    BY FirstsAppend
  <2>2. Firsts \subseteq DOMAIN heard
    BY DEF Firsts
  <2> QED
    BY <2>1, <2>2
<1>4. \A j \in DOMAIN heard' : Name(heard'[j]) \in DOMAIN dict
  BY <1>1 DEF Numbered
<1>5. \A j \in Firsts' : dict'[Name(heard'[j])] = Cardinality({k \in Firsts' : k <= j})
  <2> TAKE j \in Firsts'
  <2>1. j \in Firsts /\ heard'[j] = heard[j]
    BY <1>1, <1>3
  <2>2. dict[Name(heard[j])] = Cardinality({k \in Firsts : k <= j})
    BY <2>1 DEF Numbered
  <2> QED
    BY <1>3, <2>1, <2>2, Zenon
<1>6. Cardinality(Firsts') = Len(pos_lens')
  BY <1>3 DEF Numbered
<1>7. IsFiniteSet(DOMAIN dict') /\ Cardinality(DOMAIN dict') = Len(pos_lens')
  BY DEF Numbered
<1> QED
  BY <1>4, <1>5, <1>6, <1>7 DEF Numbered

\* A line with a new word is one more, and its word has the next number.
LEMMA NumberedNew ==
    ASSUME heard \in Seq(Line), NEW l \in Line, heard' = Append(heard, l),
           Numbered, Name(l) \notin DOMAIN dict,
           DOMAIN dict' = DOMAIN dict \union {Name(l)},
           \A w \in DOMAIN dict : dict'[w] = dict[w],
           dict'[Name(l)] = Len(pos_lens) + 1,
           Len(pos_lens') = Len(pos_lens) + 1
    PROVE  Numbered'
<1> DEFINE n == Len(heard)
<1>1. /\ n \in Nat /\ DOMAIN heard = 1..n
      /\ DOMAIN heard' = DOMAIN heard \union {n + 1}
      /\ heard'[n + 1] = l
      /\ \A j \in DOMAIN heard : heard'[j] = heard[j]
  BY LastAppend, LenProperties
<1>2. \A j \in DOMAIN heard : Name(heard[j]) # Name(l)
  BY DEF Numbered
<1>3. Firsts' = Firsts \union {n + 1} /\ Firsts \subseteq 1..n
  BY <1>2, FirstsAppend
<1> HIDE DEF n
<1>4. \A j \in DOMAIN heard' : Name(heard'[j]) \in DOMAIN dict'
  BY <1>1 DEF Numbered
<1>5. /\ n + 1 \notin Firsts /\ IsFiniteSet(Firsts)
      /\ Cardinality(Firsts') = Len(pos_lens) + 1
  <2>1. IsFiniteSet(1..n)
    BY <1>1, FS_Interval
  <2>2. IsFiniteSet(Firsts)
    BY <1>3, <2>1, FS_Subset
  <2>3. n + 1 \notin Firsts
    BY <1>1, <1>3
  <2>4. Cardinality(Firsts \union {n + 1}) = Cardinality(Firsts) + 1
    BY <2>2, <2>3, FS_AddElement
  <2> QED
    BY <1>3, <2>2, <2>3, <2>4 DEF Numbered
<1>6. ASSUME NEW j \in Firsts'
      PROVE  dict'[Name(heard'[j])] = Cardinality({k \in Firsts' : k <= j})
  <2>1. CASE j \in Firsts
    <3>1. {k \in Firsts' : k <= j} = {k \in Firsts : k <= j}
      <4>1. j \in 1..n /\ ~(n + 1 <= j)
        BY <1>1, <1>3, <2>1
      <4> QED
        BY <1>3, <4>1
    <3>2. j \in DOMAIN heard /\ Name(heard[j]) \in DOMAIN dict
      BY <1>1, <1>3, <2>1 DEF Numbered
    <3>3. dict'[Name(heard'[j])] = dict[Name(heard[j])]
      BY <1>1, <3>2
    <3>4. dict[Name(heard[j])] = Cardinality({k \in Firsts : k <= j})
      BY <2>1 DEF Numbered
    <3> QED
      BY <3>1, <3>3, <3>4
  <2>2. CASE j = n + 1
    <3>1. {k \in Firsts' : k <= j} = Firsts'
      <4>1. \A k \in 1..n : k <= n + 1
        BY <1>1
      <4>2. n + 1 <= n + 1
        BY <1>1
      <4> QED
        BY <1>3, <2>2, <4>1, <4>2
    <3> QED
      BY <1>1, <1>5, <2>2, <3>1
  <2> QED
    BY <1>3, <2>1, <2>2
<1>7. IsFiniteSet(DOMAIN dict') /\ Cardinality(DOMAIN dict') = Len(pos_lens')
  BY FS_AddElement DEF Numbered
<1> QED
  BY <1>4, <1>5, <1>6, <1>7 DEF Numbered

\* A replacement in a view without the focus displays l as its line, and the
\* others as they were.
LEMMA ReplacedDisplay ==
    ASSUME IInv, run, replace, NEW l \in Line, Name(l) \in DOMAIN dict, Replaced(l),
           ~touched'
    PROVE  /\ ~touched /\ dict' = dict /\ Len(pos_lens') = Len(pos_lens)
           /\ \A i \in 1..Len(pos_lens) :
                 Displayed(i)' = IF i = dict[Name(l)] THEN l ELSE Displayed(i)
<1> DEFINE n == dict[Name(l)]
<1>1. PICK focus \in BOOLEAN :
          /\ touched' = (touched \/ focus)
          /\ \E t \in Inserted(focus, pos_lens[n].start, pos_lens[n].end + 1,
                               Append(l, NewLine)) :
                text' = [text EXCEPT !["stdout"] = t]
  BY DEF Replaced
<1>2. ~touched /\ ~focus
  BY <1>1
<1>3. text'["stdout"] = Splice(text["stdout"], pos_lens[n].start,
                               pos_lens[n].end + 1, Append(l, NewLine))
  BY <1>1, <1>2 DEF Inserted, IInv, TypeOK, ViewsTypeOK, Views
<1>4. /\ dict' = dict
      /\ pos_lens' = [i \in DOMAIN pos_lens |->
                         Shifted(i, n, pos_lens[n].start + Len(l) - pos_lens[n].end)]
  BY DEF Replaced
<1>5. n \in DOMAIN pos_lens /\ Len(l) \in Nat
  BY Positions, LineType DEF IInv, TypeOK
<1>6. Len(pos_lens') = Len(pos_lens)
  BY <1>4, <1>5, ShiftedOrdered DEF IInv
<1>7. Becomes(n, l)
  BY <1>3, <1>4 DEF Becomes
<1>8. \A i \in 1..Len(pos_lens) : Displayed(i)' = IF i = n THEN l ELSE Displayed(i)
  BY <1>2, <1>7, TilesReplaced
<1> QED
  BY <1>2, <1>4, <1>6, <1>8

\* The line displayed for a word stays the last with it when one is replaced.
LEMMA LatestKnown ==
    ASSUME IInv, run, replace, NEW l \in Line, heard' = Append(heard, l),
           Name(l) \in DOMAIN dict, Replaced(l), ~touched', Latest
    PROVE  Latest'
<1>1. /\ ~touched /\ dict' = dict /\ Len(pos_lens') = Len(pos_lens)
      /\ \A i \in 1..Len(pos_lens) :
            Displayed(i)' = IF i = dict[Name(l)] THEN l ELSE Displayed(i)
  BY ReplacedDisplay
<1>2. heard \in Seq(Line)
  BY DEF IInv, TypeOK, Line
<1>3. ASSUME NEW w \in DOMAIN dict, NEW i \in 1..Len(pos_lens), dict[w] = i
      PROVE  \E j \in DOMAIN heard' : IsLastWith(j, w)' /\ Displayed(i)' = heard'[j]
  <2>1. CASE w = Name(l)
    <3>1. Displayed(i)' = l
      BY <1>1, <1>3, <2>1
    <3> QED
      BY <1>2, <2>1, <3>1, LastAppend
  <2>2. CASE w # Name(l)
    <3>1. i # dict[Name(l)]
      BY <1>1, <1>3, <2>2 DEF IInv, LinesTile
    <3>2. PICK j \in DOMAIN heard : IsLastWith(j, w) /\ Displayed(i) = heard[j]
      BY <1>3 DEF Latest
    <3>3. Displayed(i)' = heard[j]
      BY <1>1, <3>1, <3>2
    <3>4. IsLastWith(j, w)' /\ j \in DOMAIN heard' /\ heard'[j] = heard[j]
      BY <1>2, <2>2, <3>2, LastAppend
    <3> QED
      BY <3>3, <3>4
  <2> QED
    BY <2>1, <2>2
<1> QED
  BY <1>1, <1>3 DEF Latest

\* And when one is added.
LEMMA LatestNew ==
    ASSUME IInv, run, replace, ~touched, NEW l \in Line, heard' = Append(heard, l),
           Name(l) \in Words, Name(l) \notin DOMAIN dict, Added(l), Latest
    PROVE  /\ Latest'
           /\ DOMAIN dict' = DOMAIN dict \union {Name(l)}
           /\ \A w \in DOMAIN dict : dict'[w] = dict[w]
           /\ dict'[Name(l)] = Len(pos_lens) + 1
           /\ Len(pos_lens') = Len(pos_lens) + 1
<1>1. /\ DOMAIN dict' = DOMAIN dict \union {Name(l)}
      /\ \A w \in DOMAIN dict : dict'[w] = dict[w]
      /\ dict'[Name(l)] = Len(pos_lens) + 1
  BY DEF Added
<1>2. Len(pos_lens') = Len(pos_lens) + 1 /\ Len(pos_lens) \in Nat
  BY AddedOrdered, Positions DEF IInv
<1>3. \A i \in 1..Len(pos_lens) + 1 :
          Displayed(i)' = IF i = Len(pos_lens) + 1 THEN l ELSE Displayed(i)
  BY TilesAdded
<1>4. heard \in Seq(Line) /\ \A w \in DOMAIN dict : dict[w] \in 1..Len(pos_lens)
  BY DEF IInv, TypeOK, Line
<1>5. ASSUME NEW w \in DOMAIN dict', NEW i \in 1..Len(pos_lens) + 1, dict'[w] = i
      PROVE  \E j \in DOMAIN heard' : IsLastWith(j, w)' /\ Displayed(i)' = heard'[j]
  <2>1. CASE w = Name(l)
    <3>1. Displayed(i)' = l
      BY <1>1, <1>3, <1>5, <2>1
    <3> QED
      BY <1>4, <2>1, <3>1, LastAppend
  <2>2. CASE w # Name(l)
    <3>1. w \in DOMAIN dict /\ dict[w] = i /\ i \in 1..Len(pos_lens)
      BY <1>1, <1>4, <1>5, <2>2
    <3>2. PICK j \in DOMAIN heard : IsLastWith(j, w) /\ Displayed(i) = heard[j]
      BY <3>1 DEF Latest
    <3>3. Displayed(i)' = heard[j]
      <4>1. i # Len(pos_lens) + 1
        BY <1>2, <3>1
      <4> QED
        BY <1>3, <3>2, <4>1
    <3>4. IsLastWith(j, w)' /\ j \in DOMAIN heard' /\ heard'[j] = heard[j]
      BY <1>4, <2>2, <3>2, LastAppend
    <3> QED
      BY <3>3, <3>4
  <2> QED
    BY <2>1, <2>2
<1> QED
  BY <1>1, <1>2, <1>5 DEF Latest

\* The end of a line: it was printed as cur_line has it.
LEMMA LineEndHeard ==
    ASSUME IInv, run, replace, LineEnd, UNCHANGED <<run, replace, carried>>, HeardInv
    PROVE  HeardInv'
<1> SUFFICES ASSUME ~touched', ~carried', fault' = "none"
             PROVE  cur_line' = partial' /\ Numbered' /\ Latest'
  BY DEF HeardInv
<1> DEFINE l == cur_line
<1>1. /\ ~(Len(Name(cur_line)) >= NameSize)
      /\ IF Name(cur_line) \in DOMAIN dict THEN Replaced(cur_line) ELSE Added(cur_line)
      /\ cur_line' = <<>> /\ fault = "none"
  BY DEF LineEnd, Overflow
<1>2. heard' = Append(heard, partial) /\ partial' = <<>>
  BY DEF LineEnd
<1>3. ~touched
  BY <1>1 DEF Replaced, Added
<1>4. cur_line = partial /\ Numbered /\ Latest
  BY <1>1, <1>3 DEF HeardInv
<1>5. l \in Line /\ heard \in Seq(Line)
  BY DEF IInv, TypeOK, Line
<1>6. Name(l) \in Words
  BY <1>1, <1>5, NameFits
<1>7. heard' = Append(heard, l)
  BY <1>2, <1>4
<1>8. CASE Name(l) \in DOMAIN dict
  <2>1. Replaced(l)
    BY <1>1, <1>8
  <2>2. Latest'
    BY <1>4, <1>5, <1>7, <1>8, <2>1, LatestKnown
  <2>3. dict' = dict /\ Len(pos_lens') = Len(pos_lens)
    BY <1>5, <1>8, <2>1, ReplacedDisplay
  <2>4. \E j \in DOMAIN heard : Name(heard[j]) = Name(l)
    BY <1>4, <1>8 DEF Latest, IsLastWith, IInv, TypeOK
  <2>5. Numbered'
    BY <1>4, <1>5, <1>7, <1>8, <2>3, <2>4, NumberedKnown
  <2> QED
    BY <1>1, <1>2, <2>2, <2>5
<1>9. CASE Name(l) \notin DOMAIN dict
  <2>1. Added(l)
    BY <1>1, <1>9
  <2>2. /\ Latest'
        /\ DOMAIN dict' = DOMAIN dict \union {Name(l)}
        /\ \A w \in DOMAIN dict : dict'[w] = dict[w]
        /\ dict'[Name(l)] = Len(pos_lens) + 1
        /\ Len(pos_lens') = Len(pos_lens) + 1
    BY <1>3, <1>4, <1>5, <1>6, <1>7, <1>9, <2>1, LatestNew
  <2>3. Numbered'
    BY <1>4, <1>5, <1>7, <1>9, <2>2, NumberedNew
  <2> QED
    BY <1>1, <1>2, <2>2, <2>3
<1> QED
  BY <1>8, <1>9

\* What it says of words and lines is about these only.
LEMMA SameWords ==
    ASSUME UNCHANGED <<text, dict, pos_lens, heard>>, Numbered, Latest
    PROVE  Numbered' /\ Latest'
<1>1. Firsts' = Firsts
  BY DEF Firsts
<1>2. Numbered'
  BY <1>1 DEF Numbered
<1>3. \A j, w : IsLastWith(j, w)' <=> IsLastWith(j, w)
  BY DEF IsLastWith
<1>4. \A i : Displayed(i)' = Displayed(i)
  BY DEF Displayed
<1> QED
  BY <1>2, <1>3, <1>4 DEF Latest

\* Every action keeps it.
LEMMA StepHeard == IInv /\ HeardInv /\ [Next]_vars => HeardInv'
<1> SUFFICES ASSUME IInv, HeardInv, [Next]_vars PROVE HeardInv'
  OBVIOUS
<1>1. ASSUME NEW c \in Chars, ReplaceResult(c) PROVE HeardInv'
  <2>1. CASE c = NewLine
    BY <1>1, <2>1, LineEndHeard DEF ReplaceResult
  <2>2. CASE c # NewLine
    <3>1. /\ UNCHANGED <<run, replace, carried, text, dict, pos_lens, touched, heard>>
          /\ partial' = Append(partial, c)
          /\ fault' = "none" => cur_line' = Append(cur_line, c) /\ fault = "none"
      BY <1>1, <2>2 DEF ReplaceResult, LineChar, Overflow
    <3> QED
      BY <3>1, SameWords DEF HeardInv
  <2> QED
    BY <2>1, <2>2
<1>2. ASSUME NEW c \in Chars, WriteResult(c) PROVE HeardInv'
  BY <1>2 DEF WriteResult, lineVars, HeardInv
<1>3. CASE ReplaceLine
  BY <1>3 DEF ReplaceLine, HeardInv
<1>4. ASSUME NEW command \in BOOLEAN, OnRun(command) PROVE HeardInv'
  <2> SUFFICES ASSUME run', replace', ~carried'
               PROVE  cur_line' = partial' /\ Numbered' /\ Latest'
    BY DEF HeardInv
  <2>1. cur_line' = partial' /\ heard' = <<>> /\ pos_lens' = pos_lens
    BY <1>4 DEF OnRun
  <2>2. pos_lens = <<>> /\ dict' = <<>>
    BY <1>4 DEF OnRun, IInv, NoLinesBetween
  <2>3. DOMAIN heard' = {} /\ DOMAIN dict' = {} /\ Len(pos_lens') = 0
    BY <2>1, <2>2
  <2>4. Firsts' = {}
    BY <2>3 DEF Firsts
  <2> QED
    BY <2>1, <2>3, <2>4, FS_EmptySet DEF Numbered, Latest
<1>5. CASE RunEnd
  BY <1>5 DEF RunEnd, HeardInv
<1>6. CASE UNCHANGED vars
  BY <1>6, SameWords DEF vars, lineVars, HeardInv
<1> QED
  BY <1>1, <1>2, <1>3, <1>4, <1>5, <1>6 DEF Next

\* FirstOf and LatestLike are what the invariant speaks of.
LEMMA HeardIsLatest ==
    ASSUME IInv, HeardInv
    PROVE  TextIsLatest
<1> SUFFICES ASSUME run, replace, ~touched, ~carried, fault = "none"
             PROVE  /\ Len(pos_lens) = Cardinality({Name(heard[j]) : j \in DOMAIN heard})
                    /\ \A i \in DOMAIN pos_lens :
                          SubSeq(text["stdout"], pos_lens[i].start + 1, pos_lens[i].end)
                            = LatestLike(FirstOf(i))
  BY DEF TextIsLatest
<1>1. Numbered /\ Latest
  BY DEF HeardInv
<1>2. /\ heard \in Seq(Line) /\ Len(heard) \in Nat /\ DOMAIN heard = 1..Len(heard)
      /\ DOMAIN pos_lens = 1..Len(pos_lens)
      /\ \A w \in DOMAIN dict : dict[w] \in 1..Len(pos_lens)
  BY LenProperties, Positions DEF IInv, TypeOK, Line
<1>3. \A w \in DOMAIN dict : \E j \in DOMAIN heard :
          IsLastWith(j, w) /\ Displayed(dict[w]) = heard[j]
  <2> TAKE w \in DOMAIN dict
  <2>1. dict[w] \in 1..Len(pos_lens)
    BY <1>2
  <2> QED
    BY <1>1, <2>1, Zenon DEF Latest
<1>4. {Name(heard[j]) : j \in DOMAIN heard} = DOMAIN dict
  <2>1. \A j \in DOMAIN heard : Name(heard[j]) \in DOMAIN dict
    BY <1>1 DEF Numbered
  <2>2. \A w \in DOMAIN dict : \E j \in DOMAIN heard : w = Name(heard[j])
    BY <1>3 DEF IsLastWith
  <2> QED
    BY <2>1, <2>2
<1>5. ASSUME NEW i \in DOMAIN pos_lens
      PROVE  Displayed(i) = LatestLike(FirstOf(i))
  <2>1. PICK w \in DOMAIN dict : dict[w] = i
    BY <1>5 DEF IInv, LinesTile
  <2>2. \A v \in DOMAIN dict : dict[v] = i => v = w
    BY <2>1 DEF IInv, LinesTile
  <2>3. \E j \in Firsts : Cardinality({k \in Firsts : k <= j}) = i
    <3> DEFINE like == {j \in DOMAIN heard : Name(heard[j]) = w}
    <3>1. like # {} /\ like \subseteq Nat
      BY <1>2, <1>3 DEF IsLastWith
    <3>2. PICK j \in like : \A k \in like : j <= k
      BY <3>1, LeastNumber
    <3>3. j \in Firsts
      <4>1. ASSUME NEW k \in 1..j - 1 PROVE k \in DOMAIN heard /\ ~(j <= k)
        BY <1>2, <3>1
      <4> QED
        BY <3>2, <4>1 DEF Firsts
    <3>4. dict[Name(heard[j])] = Cardinality({k \in Firsts : k <= j})
      BY <1>1, <3>3 DEF Numbered
    <3> QED
      BY <2>1, <3>2, <3>3, <3>4
  <2> DEFINE f == FirstOf(i)
  <2>4. f \in Firsts /\ Cardinality({k \in Firsts : k <= f}) = i
    <3>1. f = CHOOSE j \in Firsts : Cardinality({k \in Firsts : k <= j}) = i
      BY DEF FirstOf, Firsts
    <3> HIDE DEF f
    <3> QED
      BY <2>3, <3>1, Zenon
  <2> HIDE DEF f
  <2>5. Name(heard[f]) = w
    <3>1. f \in DOMAIN heard
      BY <2>4 DEF Firsts
    <3>2. Name(heard[f]) \in DOMAIN dict /\ dict[Name(heard[f])] = i
      BY <1>1, <2>4, <3>1 DEF Numbered
    <3> QED
      BY <2>2, <3>2
  <2>6. PICK j \in DOMAIN heard : IsLastWith(j, w) /\ Displayed(i) = heard[j]
    BY <1>3, <2>1
  <2> DEFINE Last(k) == /\ Name(heard[k]) = Name(heard[f])
                        /\ \A m \in k + 1..Len(heard) : Name(heard[m]) # Name(heard[f])
  <2>7. Last(j)
    BY <2>5, <2>6 DEF IsLastWith
  <2>8. \A k \in DOMAIN heard : Last(k) => k = j
    <3> SUFFICES ASSUME NEW k \in DOMAIN heard, Last(k) PROVE k = j
      OBVIOUS
    <3>1. k \in 1..Len(heard) /\ j \in 1..Len(heard)
      BY <1>2
    <3>2. ~(k < j)
      <4>1. k < j => j \in k + 1..Len(heard)
        BY <1>2, <3>1
      <4> QED
        BY <2>7, <4>1
    <3>3. ~(j < k)
      <4>1. j < k => k \in j + 1..Len(heard)
        BY <1>2, <3>1
      <4> QED
        BY <2>7, <4>1
    <3> QED
      BY <3>1, <3>2, <3>3
  <2>9. LatestLike(f) = heard[CHOOSE k \in DOMAIN heard : Last(k)]
    BY DEF LatestLike
  <2> HIDE DEF Last
  <2>10. (CHOOSE k \in DOMAIN heard : Last(k)) = j
    BY <2>7, <2>8, Zenon
  <2> QED
    BY <2>6, <2>9, <2>10 DEF f
<1> QED
  BY <1>1, <1>4, <1>5 DEF Numbered, Displayed

\* Replace mode does what it is for: there is one line for each first word
\* of the run, in the order in which the words came, and it is the last that
\* began so.  For any lines, of any length that fits, as long as none
\* was replaced in a view with the focus and the run found cur_line empty.
THEOREM TextIsLatestTheorem == Spec => []TextIsLatest
<1>1. Init => HeardInv
  BY DEF Init, HeardInv
<1>2. IInv /\ HeardInv => TextIsLatest
  BY HeardIsLatest
<1> QED
  BY Invariance, <1>1, <1>2, StepHeard, PTL DEF Spec
=============================================================================
