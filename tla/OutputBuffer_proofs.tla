------------------------ MODULE OutputBuffer_proofs ------------------------
(***************************************************************************)
(* Proofs about OutputBuffer, for every size of the buffers and every      *)
(* limit that satisfies SizeAssumption.  What depends on out_len not       *)
(* wrapping around says so: MaxTotal < Word, output of less than 4 GiB.    *)
(***************************************************************************)
EXTENDS OutputBuffer, TLAPS

Stdout == total["stdout"]

BufferInv ==
    /\ \A s \in Streams : len[s] = total[s]
    /\ parseSize >= InitialParse + ReadMax
    /\ extent <= parseSize
    /\ running /\ nolimit => Stdout <= parseSize

StoredInv ==
    /\ running => handed = "no"
    /\ running /\ (nolimit \/ Stdout < InitialParse) => stored = Stdout
    /\ handed # "no" => Stdout > MinParse /\ stored = Stdout
    /\ handed = "limited" => Stdout < InitialParse

DisplayInv ==
    \A s \in Streams \ touched : disp[s] <= Limit(s) /\ disp[s] <= len[s]

-----------------------------------------------------------------------------
(* What the helpers of RunUpdate return.                                   *)

LEMMA WrapLemma ==
    ASSUME NEW x \in 0..Word - 1, NEW n \in 0..ReadMax
    PROVE  /\ Wrap(x + n) \in 0..Word - 1
           /\ x + n < Word => Wrap(x + n) = x + n
BY SizeAssumption DEF Wrap

LEMMA LimitLemma ==
    ASSUME NEW s \in Streams
    PROVE  Limit(s) \in Nat /\ Limit(s) >= ReadMax
BY SizeAssumption DEF Limit, Streams

\* A read never makes a display negative, whoever has the focus.
LEMMA DisplayedType ==
    ASSUME TypeOK, NEW s \in Streams, NEW n \in 0..ReadMax,
           NEW x \in Displayed(s, n)
    PROVE  x \in Nat
<1>1. disp[s] \in Nat
  BY DEF TypeOK
<1>2. ASSUME NEW d \in Deleted(s, n) PROVE d \in Nat /\ d <= disp[s]
  <2>1. CASE focus = s
    BY <1>1, <2>1 DEF Deleted
  <2>2. CASE focus # s
    <3>1. PICK b \in n..n * CharBytes : d = Smaller(b, disp[s])
      BY <2>2 DEF Deleted
    <3>2. b \in Nat
      <4>1. n * CharBytes \in Int
        BY SizeAssumption
      <4> QED BY <4>1
    <3> QED BY <1>1, <3>1, <3>2 DEF Smaller
  <2> QED BY <2>1, <2>2
<1>3. CASE x = disp[s]
  BY <1>1, <1>3
<1>4. CASE x = disp[s] + n
  BY <1>1, <1>4
<1>5. CASE \E d \in Deleted(s, n) : x = disp[s] - d + n
  BY <1>1, <1>2, <1>5
<1> QED BY <1>3, <1>4, <1>5 DEF Displayed

\* Away from the focus a read keeps a display within its limit, and within
\* what has been printed.
LEMMA DisplayedBound ==
    ASSUME TypeOK, NEW s \in Streams, NEW n \in 0..ReadMax, focus # s,
           disp[s] <= Limit(s), disp[s] <= len[s], len[s] + n < Word,
           NEW x \in Displayed(s, n)
    PROVE  x <= Limit(s) /\ x <= len[s] + n
<1>1. disp[s] \in Nat /\ len[s] \in 0..Word - 1
  BY DEF TypeOK
<1>2. Limit(s) \in Nat /\ Limit(s) >= ReadMax
  BY LimitLemma
<1>3. Wrap(len[s] + n) = len[s] + n
  BY <1>1, WrapLemma
<1>4. CASE x = disp[s]
  BY <1>1, <1>2, <1>4
<1>5. CASE ~Trims(s, n) /\ x = disp[s] + n
  BY <1>1, <1>2, <1>3, <1>5 DEF Trims
<1>6. ASSUME NEW d \in Deleted(s, n), x = disp[s] - d + n
      PROVE  x <= Limit(s) /\ x <= len[s] + n
  <2>1. PICK b \in n..n * CharBytes : d = Smaller(b, disp[s])
    BY DEF Deleted, Streams
  <2>2. b \in Nat /\ b >= n
    <3>1. n * CharBytes \in Int
      BY SizeAssumption
    <3> QED BY <3>1
  <2>3. n \in Nat /\ n <= ReadMax /\ ReadMax \in Nat
    BY SizeAssumption
  <2> QED BY <1>1, <1>2, <1>6, <2>1, <2>2, <2>3 DEF Smaller
<1> QED BY <1>4, <1>5, <1>6 DEF Displayed

-----------------------------------------------------------------------------
(* Type correctness.                                                       *)

LEMMA StdoutStream == "stdout" \in Streams /\ "stderr" \in Streams
BY DEF Streams

LEMMA TypeStep == TypeOK /\ [Next]_vars => TypeOK'
<1> SUFFICES ASSUME TypeOK, [Next]_vars PROVE TypeOK'
  OBVIOUS
<1> USE SizeAssumption
<1>1. CASE NoSizeLimit
  BY <1>1 DEF TypeOK, NoSizeLimit, bufVars
<1>2. CASE Hide
  BY <1>2 DEF TypeOK, Hide, bufVars
<1>3. ASSUME NEW view \in Streams \union {"none"}, Focus(view) PROVE TypeOK'
  BY <1>3 DEF TypeOK, Focus, bufVars
<1>4. ASSUME NEW command \in BOOLEAN, OnRun(command) PROVE TypeOK'
  BY <1>4 DEF TypeOK, OnRun, userVars, Zero
<1>5. ASSUME NEW n \in 0..ReadMax, NEW m \in 0..ReadMax, RunUpdate(n, m)
      PROVE  TypeOK'
  <2> DEFINE read(s) == IF s = "stdout" THEN n ELSE m
  <2>1. \A s \in Streams : len[s] \in 0..Word - 1 /\ total[s] \in 0..MaxTotal
    BY DEF TypeOK
  <2>2. len' \in [Streams -> 0..Word - 1]
    <3>1. \A s \in Streams : Wrap(len[s] + read(s)) \in 0..Word - 1
      BY <2>1, WrapLemma
    <3>2. len' = [s \in Streams |-> Wrap(len[s] + read(s))]
      BY <1>5 DEF RunUpdate
    <3> HIDE DEF read
    <3> QED BY <3>1, <3>2
  <2>3. total' \in [Streams -> 0..MaxTotal]
    BY <1>5, <2>1 DEF RunUpdate, Streams
  <2>4. disp' \in [Streams -> Nat]
    <3>1. PICK x \in Displayed("stdout", n), y \in Displayed("stderr", m) :
              disp' = [s \in Streams |-> IF s = "stdout" THEN x ELSE y]
      BY <1>5 DEF RunUpdate
    <3>2. x \in Nat /\ y \in Nat
      BY DisplayedType, StdoutStream
    <3> QED BY <3>1, <3>2
  <2>5. parseSize' \in Nat
    BY <1>5 DEF RunUpdate, bufVars, Grown, TypeOK
  <2>6. extent' \in Nat /\ stored' \in Nat
    <3>1. len["stdout"] \in Nat /\ stored \in Nat /\ extent \in Nat
      BY <2>1, StdoutStream DEF TypeOK
    <3> QED BY <1>5, <3>1 DEF RunUpdate, bufVars, Store, Larger, Smaller
  <2>7. touched' \subseteq Streams \union {"noshow"}
    BY <1>5 DEF RunUpdate, TypeOK
  <2> QED BY <1>5, <2>2, <2>3, <2>4, <2>5, <2>6, <2>7
          DEF TypeOK, RunUpdate, userVars
<1>6. ASSUME NEW complete \in BOOLEAN, RunEnd(complete) PROVE TypeOK'
  BY <1>6 DEF TypeOK, RunEnd, userVars, bufVars
<1>7. CASE UNCHANGED vars
  BY <1>7 DEF TypeOK, vars, userVars, bufVars
<1> QED BY <1>1, <1>2, <1>3, <1>4, <1>5, <1>6, <1>7 DEF Next

LEMMA TypeInit == Init => TypeOK
<1> SUFFICES ASSUME Init PROVE TypeOK
  OBVIOUS
<1>1. Zero \in [Streams -> 0..MaxTotal] /\ Zero \in [Streams -> 0..Word - 1]
      /\ Zero \in [Streams -> Nat]
  BY SizeAssumption DEF Zero
<1>2. parseSize \in Nat
  BY SizeAssumption DEF Init
<1> QED BY <1>1, <1>2 DEF Init, TypeOK

\* The type invariant of the buffer and its counters: out_len and err_len stay
\* within their width, and no display is ever trimmed below nothing.
THEOREM TypeCorrect == Spec => []TypeOK
BY TypeInit, TypeStep, PTL DEF Spec

-----------------------------------------------------------------------------
(* The parse buffer.                                                       *)

LEMMA BufferInit == Init => BufferInv /\ StoredInv
BY SizeAssumption DEF Init, BufferInv, StoredInv, Stdout, Zero, Streams

\* What RunUpdate does to stdout as long as out_len does not wrap around.
LEMMA UpdateStdout ==
    ASSUME MaxTotal < Word, TypeOK, BufferInv,
           NEW n \in 0..ReadMax, NEW m \in 0..ReadMax, RunUpdate(n, m)
    PROVE  /\ \A s \in Streams : len'[s] = total'[s]
           /\ Stdout \in Nat /\ len["stdout"] = Stdout
           /\ Stdout' = Stdout + n
           /\ Wrap(len["stdout"] + n) = Stdout + n
<1> DEFINE read(s) == IF s = "stdout" THEN n ELSE m
<1>1. \A s \in Streams : len[s] \in 0..Word - 1 /\ total[s] \in Nat /\ len[s] = total[s]
  BY DEF TypeOK, BufferInv
<1>2. \A s \in Streams : total[s] + read(s) < Word
  BY <1>1, SizeAssumption DEF RunUpdate, Streams
<1>3. \A s \in Streams : Wrap(len[s] + read(s)) = total[s] + read(s)
  <2> SUFFICES ASSUME NEW s \in Streams
               PROVE  Wrap(len[s] + read(s)) = total[s] + read(s)
    OBVIOUS
  <2>1. read(s) \in 0..ReadMax
    OBVIOUS
  <2> HIDE DEF read
  <2> QED BY <1>1, <1>2, <2>1, WrapLemma
<1>4. \A s \in Streams : len'[s] = Wrap(len[s] + read(s)) /\ total'[s] = total[s] + read(s)
  BY DEF RunUpdate
<1>5. read("stdout") = n
  OBVIOUS
<1> HIDE DEF read
<1> QED BY <1>1, <1>3, <1>4, <1>5, StdoutStream DEF Stdout

LEMMA BufferStep ==
    MaxTotal < Word /\ TypeOK /\ BufferInv /\ [Next]_vars => BufferInv'
<1> SUFFICES ASSUME MaxTotal < Word, TypeOK, BufferInv, [Next]_vars
             PROVE  BufferInv'
  OBVIOUS
<1>1. CASE NoSizeLimit
  BY <1>1 DEF BufferInv, Stdout, NoSizeLimit, NolimitEnabled, bufVars
<1>2. CASE Hide
  BY <1>2 DEF BufferInv, Stdout, Hide, bufVars
<1>3. ASSUME NEW view \in Streams \union {"none"}, Focus(view) PROVE BufferInv'
  BY <1>3 DEF BufferInv, Stdout, Focus, bufVars
<1>4. ASSUME NEW command \in BOOLEAN, OnRun(command) PROVE BufferInv'
  <2>1. parseSize \in Nat
    BY DEF TypeOK
  <2> QED BY <1>4, <2>1 DEF BufferInv, Stdout, OnRun, userVars, Zero, Streams
<1>5. ASSUME NEW n \in 0..ReadMax, NEW m \in 0..ReadMax, RunUpdate(n, m)
      PROVE  BufferInv'
  <2>1. /\ \A s \in Streams : len'[s] = total'[s]
        /\ Stdout \in Nat /\ len["stdout"] = Stdout
        /\ Stdout' = Stdout + n
        /\ Wrap(len["stdout"] + n) = Stdout + n
    BY <1>5, UpdateStdout
  <2>2. /\ running /\ UNCHANGED <<running, nolimit>>
        /\ parseSize \in Nat /\ extent \in Nat
    BY <1>5 DEF RunUpdate, userVars, TypeOK
  <2>3. CASE n = 0
    BY <1>5, <2>1, <2>2, <2>3 DEF RunUpdate, bufVars, BufferInv
  <2>4. CASE n # 0
    <3>1. parseSize' = Grown(n) /\ Store(n)
      BY <1>5, <2>4 DEF RunUpdate
    <3>2. parseSize' \in Nat /\ parseSize' >= parseSize
      BY <2>2, <3>1, SizeAssumption DEF Grown
    <3>3. Copies => Stdout + n <= parseSize'
      <4>1. CASE nolimit
        BY <2>1, <2>2, <3>1, <4>1, SizeAssumption DEF Grown, BufferInv
      <4>2. CASE ~nolimit
        BY <2>1, <2>2, <3>2, <4>2, SizeAssumption DEF Copies, BufferInv
      <4> QED BY <4>1, <4>2
    <3>4. extent' <= parseSize'
      BY <2>1, <2>2, <3>1, <3>2, <3>3 DEF Store, Larger, BufferInv
    <3> QED BY <2>1, <2>2, <3>2, <3>3, <3>4, SizeAssumption DEF BufferInv, Copies
  <2> QED BY <2>3, <2>4
<1>6. ASSUME NEW complete \in BOOLEAN, RunEnd(complete) PROVE BufferInv'
  BY <1>6 DEF BufferInv, Stdout, RunEnd, userVars, bufVars
<1>7. CASE UNCHANGED vars
  BY <1>7 DEF BufferInv, Stdout, vars, userVars, bufVars
<1> QED BY <1>1, <1>2, <1>3, <1>4, <1>5, <1>6, <1>7 DEF Next

LEMMA StoredStep ==
    MaxTotal < Word /\ TypeOK /\ BufferInv /\ StoredInv /\ [Next]_vars
        => StoredInv'
<1> SUFFICES ASSUME MaxTotal < Word, TypeOK, BufferInv, StoredInv, [Next]_vars
             PROVE  StoredInv'
  OBVIOUS
<1>1. CASE NoSizeLimit
  BY <1>1 DEF StoredInv, Stdout, NoSizeLimit, NolimitEnabled, bufVars
<1>2. CASE Hide
  BY <1>2 DEF StoredInv, Stdout, Hide, bufVars
<1>3. ASSUME NEW view \in Streams \union {"none"}, Focus(view) PROVE StoredInv'
  BY <1>3 DEF StoredInv, Stdout, Focus, bufVars
<1>4. ASSUME NEW command \in BOOLEAN, OnRun(command) PROVE StoredInv'
  BY <1>4 DEF StoredInv, Stdout, OnRun, userVars, Zero, Streams
<1>5. ASSUME NEW n \in 0..ReadMax, NEW m \in 0..ReadMax, RunUpdate(n, m)
      PROVE  StoredInv'
  <2>1. Stdout \in Nat /\ len["stdout"] = Stdout /\ Stdout' = Stdout + n
    BY <1>5, UpdateStdout
  <2>2. running /\ handed = "no" /\ UNCHANGED <<running, nolimit, handed>>
    BY <1>5 DEF RunUpdate, userVars, StoredInv
  <2>3. ASSUME nolimit \/ Stdout' < InitialParse PROVE stored' = Stdout'
    <3>1. Copies /\ stored = Stdout
      BY <2>1, <2>2, <2>3, SizeAssumption DEF Copies, StoredInv
    <3>2. CASE n = 0
      BY <1>5, <2>1, <3>1, <3>2 DEF RunUpdate, bufVars
    <3>3. CASE n # 0
      BY <1>5, <2>1, <3>1, <3>3 DEF RunUpdate, Store, Stdout
    <3> QED BY <3>2, <3>3
  <2> QED BY <2>2, <2>3 DEF StoredInv
<1>6. ASSUME NEW complete \in BOOLEAN, RunEnd(complete) PROVE StoredInv'
  <2>1. len["stdout"] = Stdout
    BY StdoutStream DEF BufferInv, Stdout
  <2> QED BY <1>6, <2>1 DEF StoredInv, Stdout, RunEnd, Parses, userVars, bufVars
<1>7. CASE UNCHANGED vars
  BY <1>7 DEF StoredInv, Stdout, vars, userVars, bufVars
<1> QED BY <1>1, <1>2, <1>3, <1>4, <1>5, <1>6, <1>7 DEF Next

THEOREM BufferInvariance ==
    ASSUME MaxTotal < Word
    PROVE  Spec => [](TypeOK /\ BufferInv /\ StoredInv)
<1>1. Init => TypeOK /\ BufferInv /\ StoredInv
  BY TypeInit, BufferInit
<1>2. TypeOK /\ BufferInv /\ StoredInv /\ [Next]_vars
        => (TypeOK /\ BufferInv /\ StoredInv)'
  BY TypeStep, BufferStep, StoredStep
<1> QED BY <1>1, <1>2, PTL DEF Spec

\* No copy of write_result leaves parse_buf: the buffer is always reallocated
\* by enough, because nolimit is the same for all the reads of a run.
THEOREM WritesFitTheorem == ASSUME MaxTotal < Word PROVE Spec => []WritesFit
<1>1. BufferInv => WritesFit
  BY DEF BufferInv, WritesFit
<1> QED BY <1>1, BufferInvariance, PTL

\* populate_views parses the whole output of the run or none of it.
THEOREM HandedIsWholeTheorem ==
    ASSUME MaxTotal < Word PROVE Spec => []HandedIsWhole
<1>1. BufferInv /\ StoredInv => HandedIsWhole
  BY StdoutStream DEF BufferInv, StoredInv, HandedIsWhole, Stdout
<1> QED BY <1>1, BufferInvariance, PTL

\* Without nolimit nothing of 4 MiB or more is parsed.
THEOREM LimitIsKeptTheorem == ASSUME MaxTotal < Word PROVE Spec => []LimitIsKept
<1>1. StoredInv => LimitIsKept
  BY DEF StoredInv, LimitIsKept, Stdout
<1> QED BY <1>1, BufferInvariance, PTL

-----------------------------------------------------------------------------
(* The text views the user leaves alone.                                   *)

LEMMA DisplayInit == Init => DisplayInv
BY SizeAssumption, LimitLemma DEF Init, DisplayInv, Zero

\* A read of n or m bytes, as DisplayStep and TailStep need it.
LEMMA UpdateDisplays ==
    ASSUME MaxTotal < Word, TypeOK, BufferInv,
           NEW n \in 0..ReadMax, NEW m \in 0..ReadMax, RunUpdate(n, m),
           NEW s \in Streams
    PROVE  \E k \in 0..ReadMax :
              /\ len[s] + k < Word
              /\ len[s] = total[s]
              /\ len'[s] = len[s] + k /\ total'[s] = total[s] + k
              /\ disp'[s] \in Displayed(s, k)
<1> DEFINE k == IF s = "stdout" THEN n ELSE m
<1>1. k \in 0..ReadMax
  OBVIOUS
<1>2. len[s] \in 0..Word - 1 /\ total[s] \in Nat /\ len[s] = total[s]
  BY DEF TypeOK, BufferInv
<1>3. total[s] + k <= MaxTotal
  BY DEF RunUpdate, Streams
<1>4. len[s] + k < Word
  <2> HIDE DEF k
  <2> QED BY <1>1, <1>2, <1>3, SizeAssumption
<1>5. len'[s] = Wrap(len[s] + k) /\ total'[s] = total[s] + k
  BY DEF RunUpdate
<1>6. Wrap(len[s] + k) = len[s] + k
  <2> HIDE DEF k
  <2> QED BY <1>1, <1>2, <1>4, WrapLemma
<1>7. disp'[s] \in Displayed(s, k)
  <2>1. PICK x \in Displayed("stdout", n), y \in Displayed("stderr", m) :
            disp' = [r \in Streams |-> IF r = "stdout" THEN x ELSE y]
    BY DEF RunUpdate
  <2>2. CASE s = "stdout"
    BY <2>1, <2>2
  <2>3. CASE s = "stderr"
    BY <2>1, <2>3
  <2> QED BY <2>2, <2>3 DEF Streams
<1> HIDE DEF k
<1> QED BY <1>1, <1>2, <1>4, <1>5, <1>6, <1>7

LEMMA DisplayStep ==
    ASSUME MaxTotal < Word
    PROVE  TypeOK /\ BufferInv /\ DisplayInv /\ [Next]_vars => DisplayInv'
<1> SUFFICES ASSUME TypeOK, BufferInv, DisplayInv, [Next]_vars
             PROVE  DisplayInv'
  OBVIOUS
<1>1. CASE NoSizeLimit
  BY <1>1 DEF DisplayInv, NoSizeLimit
<1>2. CASE Hide
  BY <1>2 DEF DisplayInv, Hide
<1>3. ASSUME NEW view \in Streams \union {"none"}, Focus(view) PROVE DisplayInv'
  BY <1>3 DEF DisplayInv, Focus
<1>4. ASSUME NEW command \in BOOLEAN, OnRun(command) PROVE DisplayInv'
  BY <1>4, LimitLemma, SizeAssumption DEF DisplayInv, OnRun, userVars, Zero
<1>5. ASSUME NEW n \in 0..ReadMax, NEW m \in 0..ReadMax, RunUpdate(n, m)
      PROVE  DisplayInv'
  <2> SUFFICES ASSUME NEW s \in Streams, s \notin touched'
               PROVE  disp'[s] <= Limit(s) /\ disp'[s] <= len'[s]
    BY DEF DisplayInv, Limit
  <2>1. s \notin touched /\ focus # s
    BY <1>5 DEF RunUpdate
  <2>2. disp[s] <= Limit(s) /\ disp[s] <= len[s]
    BY <2>1 DEF DisplayInv
  <2>3. PICK k \in 0..ReadMax : /\ len[s] + k < Word
                                /\ len'[s] = len[s] + k
                                /\ disp'[s] \in Displayed(s, k)
    BY <1>5, UpdateDisplays
  <2> QED BY <2>1, <2>2, <2>3, DisplayedBound
<1>6. ASSUME NEW complete \in BOOLEAN, RunEnd(complete) PROVE DisplayInv'
  BY <1>6 DEF DisplayInv, RunEnd, userVars
<1>7. CASE UNCHANGED vars
  BY <1>7 DEF DisplayInv, vars, userVars
<1> QED BY <1>1, <1>2, <1>3, <1>4, <1>5, <1>6, <1>7 DEF Next

\* However often "noshow" is switched, and whatever the width of characters, no
\* text view displays more than its limit unless it is written to while it has
\* the focus.
THEOREM DisplayBoundedTheorem ==
    ASSUME MaxTotal < Word PROVE Spec => []DisplayBounded
<1>1. Init => TypeOK /\ BufferInv /\ DisplayInv
  BY TypeInit, BufferInit, DisplayInit
<1>2. TypeOK /\ BufferInv /\ DisplayInv /\ [Next]_vars
        => (TypeOK /\ BufferInv /\ DisplayInv)'
  BY TypeStep, BufferStep, DisplayStep
<1>3. DisplayInv => DisplayBounded
  BY DEF DisplayInv, DisplayBounded
<1> QED BY <1>1, <1>2, <1>3, PTL DEF Spec

-----------------------------------------------------------------------------
(* How much of the tail is kept.                                           *)

\* The least a text view shows once t bytes have been printed.
Tail(s, t) == Smaller(t, Limit(s) + 1 - ReadMax)

LEMMA DisplayedTail ==
    ASSUME CharBytes = 1, TypeOK, NEW s \in Streams, focus # s,
           s = "stdout" => noshow = FALSE,
           NEW n \in 0..ReadMax, len[s] + n < Word,
           disp[s] >= Tail(s, len[s]), NEW x \in Displayed(s, n)
    PROVE  x >= Tail(s, len[s] + n)
<1>1. disp[s] \in Nat /\ len[s] \in 0..Word - 1
  BY DEF TypeOK
<1>2. Limit(s) \in Nat /\ ReadMax \in Nat /\ n \in Nat /\ n <= ReadMax
  BY LimitLemma, SizeAssumption
<1>3. Wrap(len[s] + n) = len[s] + n
  BY <1>1, WrapLemma
<1>4. CASE n = 0 /\ x = disp[s]
  BY <1>1, <1>4
<1>5. CASE ~Trims(s, n) /\ x = disp[s] + n
  BY <1>1, <1>2, <1>5 DEF Tail, Smaller
<1>6. ASSUME Trims(s, n), NEW d \in Deleted(s, n), x = disp[s] - d + n
      PROVE  x >= Tail(s, len[s] + n)
  <2>1. d = Smaller(n, disp[s])
    BY <1>2 DEF Deleted, Streams
  <2>2. len[s] + n > Limit(s)
    BY <1>3, <1>6 DEF Trims
  <2> QED BY <1>1, <1>2, <1>6, <2>1, <2>2 DEF Tail, Smaller
<1> QED BY <1>4, <1>5, <1>6 DEF Displayed

LEMMA TailStep ==
    ASSUME MaxTotal < Word, CharBytes = 1
    PROVE  TypeOK /\ BufferInv /\ DisplayKeepsTail /\ [Next]_vars
               => DisplayKeepsTail'
<1> SUFFICES ASSUME TypeOK, BufferInv, DisplayKeepsTail, [Next]_vars
             PROVE  DisplayKeepsTail'
  OBVIOUS
<1>1. CASE NoSizeLimit
  BY <1>1 DEF DisplayKeepsTail, Displays, NoSizeLimit
<1>2. CASE Hide
  BY <1>2 DEF DisplayKeepsTail, Displays, Hide
<1>3. ASSUME NEW view \in Streams \union {"none"}, Focus(view)
      PROVE  DisplayKeepsTail'
  BY <1>3 DEF DisplayKeepsTail, Displays, Focus
<1>4. ASSUME NEW command \in BOOLEAN, OnRun(command) PROVE DisplayKeepsTail'
  BY <1>4, LimitLemma, SizeAssumption
     DEF DisplayKeepsTail, OnRun, userVars, Zero, Smaller
<1>5. ASSUME NEW n \in 0..ReadMax, NEW m \in 0..ReadMax, RunUpdate(n, m)
      PROVE  DisplayKeepsTail'
  <2> SUFFICES ASSUME NEW s \in Streams, Displays(s)'
               PROVE  disp'[s] >= Tail(s, total'[s])
    BY DEF DisplayKeepsTail, Tail, Smaller, Limit
  <2>1. s \notin touched /\ focus # s /\ Displays(s)
    BY <1>5 DEF RunUpdate, Displays
  <2>2. s = "stdout" => noshow = FALSE
    BY <1>5 DEF RunUpdate, Displays, TypeOK
  <2>3. PICK k \in 0..ReadMax : /\ len[s] + k < Word
                                /\ len[s] = total[s]
                                /\ total'[s] = total[s] + k
                                /\ disp'[s] \in Displayed(s, k)
    BY <1>5, UpdateDisplays
  <2>4. disp[s] >= Tail(s, len[s])
    BY <2>1, <2>3 DEF DisplayKeepsTail, Tail
  <2> QED BY <2>1, <2>2, <2>3, <2>4, DisplayedTail
<1>6. ASSUME NEW complete \in BOOLEAN, RunEnd(complete) PROVE DisplayKeepsTail'
  BY <1>6 DEF DisplayKeepsTail, Displays, RunEnd, userVars
<1>7. CASE UNCHANGED vars
  BY <1>7 DEF DisplayKeepsTail, Displays, vars, userVars
<1> QED BY <1>1, <1>2, <1>3, <1>4, <1>5, <1>6, <1>7 DEF Next

\* With one byte a character, a stream that is not hidden, in a text view that
\* is not written to while it has the focus, shows all of the output, or as
\* much as its limit allows but for one read.
THEOREM DisplayKeepsTailTheorem ==
    ASSUME MaxTotal < Word, CharBytes = 1
    PROVE  Spec => []DisplayKeepsTail
<1>1. Init => TypeOK /\ BufferInv /\ DisplayKeepsTail
  BY TypeInit, BufferInit, LimitLemma, SizeAssumption
     DEF Init, DisplayKeepsTail, Zero, Smaller
<1>2. TypeOK /\ BufferInv /\ DisplayKeepsTail /\ [Next]_vars
        => (TypeOK /\ BufferInv /\ DisplayKeepsTail)'
  BY TypeStep, BufferStep, TailStep
<1> QED BY <1>1, <1>2, PTL DEF Spec
=============================================================================
