------------------------- MODULE FilterFeed_proofs -------------------------
(***************************************************************************)
(* Proofs about FilterFeed, for every size of chunks, pipes, reads and     *)
(* documents.  The argument counts bytes: those not yet written, those in  *)
(* the pipe and those read make the document.                              *)
(***************************************************************************)
EXTENDS FilterFeed, TLAPS

Unwritten == Chunk * times + remain + rest

Drains == command \in {"cat", "jq"}

\* Where the bytes of the document are.
InputInv ==
    /\ Unwritten + stdin + taken <= size
    /\ Drains /\ outcome # "cancel" => Unwritten + stdin + taken = size
    /\ stdinOpen <=> gui \in {"write", "close"}
    /\ gui # "write" => Unwritten = 0
    /\ Drains /\ child = "done" => ~stdinOpen
    /\ command = "jq" /\ child = "print" => ~stdinOpen
    /\ FedIsWhole

\* Where the bytes of the output are, as long as nothing was killed.
OutputInv ==
    /\ outcome # "cancel" => printed = stdout + shown
    /\ outcome # "none" => gui = "idle"
    /\ gui \in {"write", "close"} => shown = 0
    /\ gui = "idle" => stdout = 0 /\ child \in {"none", "done"}
    /\ command = "cat" /\ outcome # "cancel"
                       => /\ taken = printed + held
                          /\ held = (IF child = "print" THEN 1 ELSE 0)
    /\ child = "print" => Drains

Small == shown <= Chunk + 1

\* What is displayed passes the limit only in a run that will be stopped.
LimitInv ==
    /\ outcome = "cancel" \/ stop \/ Small
    /\ outcome = "complete" => Small

IInv == TypeOK /\ InputInv /\ OutputInv /\ LimitInv

-----------------------------------------------------------------------------
(* Arithmetic of the chunks.                                               *)

LEMMA Division ==
    ASSUME NEW n \in Nat
    PROVE  /\ n \div Chunk \in Nat
           /\ n % Chunk \in 0..Chunk - 1
           /\ Chunk * (n \div Chunk) + (n % Chunk) = n
BY FeedAssumption

LEMMA OneChunk ==
    ASSUME NEW t \in Nat
    PROVE  Chunk * t \in Nat /\ (t > 0 => Chunk * (t - 1) = Chunk * t - Chunk)
BY FeedAssumption

LEMMA Smaller ==
    ASSUME NEW a \in Nat, NEW b \in Nat, NEW s \in Nat, NEW t \in Nat,
           NEW z \in Nat, a + s + t <= z, b <= a
    PROVE  b + s + t <= z
OBVIOUS

LEMMA NoChunk == Chunk * 0 = 0
BY FeedAssumption

\* The part of the document not yet written is a number, and no less than
\* what the current write has still to put in the pipe.
LEMMA UnwrittenIsNat ==
    ASSUME TypeOK
    PROVE  /\ Unwritten \in Nat
           /\ Unwritten >= rest
           /\ Chunk * times \in Nat
           /\ times = 0 => Unwritten = remain + rest
<1>1. Chunk * times \in Nat
    BY OneChunk DEF TypeOK
<1>2. times = 0 => Chunk * times = 0
    BY NoChunk
<1> QED
    BY <1>1, <1>2, FeedAssumption DEF TypeOK, Unwritten

-----------------------------------------------------------------------------
(* Each action leaves the unwritten part as it is, or takes from it.       *)

\* Starting a write takes a chunk, or the remainder, from what is to come
\* and puts it in the current write: nothing is lost between the two.
LEMMA NextWriteKeeps ==
    ASSUME TypeOK, NextWrite
    PROVE  Unwritten' = Unwritten /\ (gui' # "write" => Unwritten' = 0)
<1>1. CASE times > 0 /\ rest' = Chunk /\ times' = times - 1 /\ UNCHANGED <<gui, remain>>
    <2>1. Chunk * times' = Chunk * times - Chunk
        BY <1>1, OneChunk DEF TypeOK
    <2> QED
        BY <1>1, <2>1, UnwrittenIsNat, FeedAssumption
        DEF TypeOK, NextWrite, Unwritten
<1>2. CASE times = 0 /\ remain > 0 /\ rest' = remain /\ remain' = 0 /\ UNCHANGED <<gui, times>>
    BY <1>2, NoChunk, FeedAssumption DEF TypeOK, NextWrite, Unwritten
<1>3. CASE times = 0 /\ remain = 0 /\ gui' = "close" /\ UNCHANGED <<times, remain, rest>>
    BY <1>3, NoChunk, FeedAssumption DEF TypeOK, NextWrite, Unwritten
<1> QED
    BY <1>1, <1>2, <1>3 DEF NextWrite

LEMMA OnRunWhole ==
    ASSUME TypeOK, NEW n \in 1..MaxSize, NEW cmd \in Commands, OnRun(n, cmd)
    PROVE  Unwritten' = n
BY Division, FeedAssumption DEF OnRun, Unwritten

\* The other actions of the GUI thread and all of the command's.
LEMMA OthersKeep ==
    ASSUME TypeOK,
           \/ WriteClose \/ OnStop \/ UpdateRead \/ UpdateEof \/ UpdateCancel
           \/ ChildRead
           \/ (\E n \in 0..MaxSize : ChildEof(n)) \/ ChildPrint \/ ChildExit
           \/ UNCHANGED vars
    PROVE  Unwritten' = Unwritten
BY DEF WriteClose, OnStop, UpdateRead, UpdateEof, UpdateCancel, ChildRead, ChildEof, ChildPrint,
       ChildExit, Unwritten, vars, guiVars

-----------------------------------------------------------------------------
(* The three parts of the invariant, one action at a time.                 *)

LEMMA Initial == Init => IInv
<1> SUFFICES ASSUME Init PROVE IInv
    OBVIOUS
<1>1. Unwritten = 0
    BY NoChunk DEF Init, Unwritten
<1>2. TypeOK
    <2>1. moved \in BOOLEAN /\ stdinOpen \in BOOLEAN /\ stop \in BOOLEAN
        BY Zenon DEF Init
    <2> QED
        BY <2>1, FeedAssumption DEF Init, TypeOK
<1>3. InputInv
    BY <1>1 DEF Init, InputInv, Drains, FedIsWhole
<1>4. OutputInv
    BY DEF Init, OutputInv, Drains
<1>5. LimitInv
    <2>1. Small
        BY FeedAssumption DEF Init, Small
    <2> QED
        BY <2>1 DEF LimitInv
<1> QED
    BY <1>2, <1>3, <1>4, <1>5 DEF IInv

LEMMA InputStep == IInv /\ [Next]_vars => InputInv'
<1> SUFFICES ASSUME IInv, [Next]_vars PROVE InputInv'
    OBVIOUS
<1> USE DEF IInv
<1>0. Unwritten \in Nat /\ Unwritten >= rest
    BY UnwrittenIsNat
<1>1. ASSUME NEW n \in 1..MaxSize, NEW cmd \in Commands, OnRun(n, cmd)
      PROVE  InputInv'
    <2>1. Unwritten' = n
        BY <1>1, OnRunWhole
    <2> QED
        BY <1>1, <2>1 DEF OnRun, InputInv, FedIsWhole, Drains
<1>2. CASE NextWrite
    <2>1. Unwritten' = Unwritten /\ (gui' # "write" => Unwritten' = 0)
        BY <1>2, NextWriteKeeps
    <2> QED
        BY <1>2, <2>1
        DEF NextWrite, InputInv, FedIsWhole, Drains, childVars
<1>3. CASE WriteByte
    <2>1. Unwritten' = Unwritten - 1
        BY <1>3, UnwrittenIsNat, FeedAssumption DEF WriteByte, Unwritten, TypeOK
    <2> QED
        BY <1>0, <1>3, <2>1
        DEF WriteByte, InputInv, FedIsWhole, Drains, childVars, TypeOK
<1>4. CASE WriteCut
    <2>1. ~Drains
        BY <1>4 DEF WriteCut, InputInv
    <2>2. Unwritten' \in Nat /\ Unwritten' <= Unwritten
        BY <1>4, NoChunk, UnwrittenIsNat, FeedAssumption
        DEF WriteCut, Unwritten, TypeOK
    <2>3. gui' # "write" => Unwritten' = 0
        BY <1>4, NoChunk, FeedAssumption DEF WriteCut, Unwritten
    <2>4. /\ gui = "write" /\ gui' \in {"write", "close"}
          /\ UNCHANGED <<size, stdin, stdinOpen, command, child, taken>>
        BY <1>4 DEF WriteCut, childVars
    <2>5. Unwritten' + stdin + taken <= size
        <3>1. stdin \in Nat /\ taken \in Nat /\ size \in Nat
            BY FeedAssumption DEF TypeOK
        <3>2. Unwritten + stdin + taken <= size
            BY DEF InputInv
        <3> HIDE DEF IInv
        <3> QED
            BY <1>0, <2>2, <3>1, <3>2, Smaller
    <2> QED
        BY <2>1, <2>3, <2>4, <2>5 DEF InputInv, FedIsWhole, Drains
<1>5. CASE WriteClose
    <2>1. Unwritten' = Unwritten
        BY <1>5, OthersKeep
    <2> QED
        BY <1>5, <2>1 DEF WriteClose, InputInv, FedIsWhole, Drains, childVars
<1>6. CASE OnStop \/ UpdateRead \/ UpdateEof
    <2>1. Unwritten' = Unwritten
        BY <1>6, OthersKeep
    <2> QED
        BY <1>6, <2>1
        DEF OnStop, UpdateRead, UpdateEof, InputInv, FedIsWhole, Drains,
            childVars, OutputInv
<1>12. CASE UpdateCancel
    <2>1. Unwritten' = Unwritten
        BY <1>12, OthersKeep
    <2>2. stdin \in Nat /\ taken \in Nat /\ size \in Nat
        BY FeedAssumption DEF TypeOK
    <2> QED
        BY <1>0, <1>12, <2>1, <2>2
        DEF UpdateCancel, InputInv, FedIsWhole, Drains
<1>7. CASE ChildRead
    <2>1. Unwritten' = Unwritten
        BY <1>7, OthersKeep
    <2> QED
        BY <1>0, <1>7, <2>1
        DEF ChildRead, InputInv, FedIsWhole, Drains, guiVars, TypeOK
<1>8. ASSUME NEW n \in 0..MaxSize, ChildEof(n)
      PROVE  InputInv'
    <2>1. Unwritten' = Unwritten
        BY <1>8, OthersKeep
    <2>2. outcome = "none"
        BY <1>8 DEF ChildEof, OutputInv
    <2> QED
        BY <1>8, <2>1, <2>2
        DEF ChildEof, InputInv, FedIsWhole, Drains, guiVars, TypeOK
<1>9. CASE ChildPrint
    <2>1. Unwritten' = Unwritten
        BY <1>9, OthersKeep
    <2> QED
        BY <1>9, <2>1
        DEF ChildPrint, InputInv, FedIsWhole, Drains, guiVars
<1>10. CASE ChildExit
    <2>1. Unwritten' = Unwritten
        BY <1>10, OthersKeep
    <2>2. command = "cat" => child # "print" \/ held = 1
        BY DEF OutputInv
    <2> QED
        BY <1>10, <2>1, <2>2
        DEF ChildExit, InputInv, FedIsWhole, Drains, guiVars
<1>11. CASE UNCHANGED vars
    <2>1. Unwritten' = Unwritten
        BY <1>11, OthersKeep
    <2> QED
        BY <1>11, <2>1
        DEF vars, InputInv, FedIsWhole, Drains, guiVars, childVars
<1> QED
    BY <1>1, <1>2, <1>3, <1>4, <1>5, <1>6, <1>7, <1>8, <1>9, <1>10, <1>11,
       <1>12
    DEF Next

LEMMA OutputStep == IInv /\ [Next]_vars => OutputInv'
<1> SUFFICES ASSUME IInv, [Next]_vars PROVE OutputInv'
    OBVIOUS
<1> USE DEF IInv, TypeOK, OutputInv, Drains
<1>1. CASE \E n \in 1..MaxSize, cmd \in Commands : OnRun(n, cmd)
    BY <1>1 DEF OnRun
<1>2. CASE NextWrite
    BY <1>2 DEF NextWrite, childVars
<1>3. CASE WriteByte
    BY <1>3 DEF WriteByte, childVars
<1>4. CASE WriteCut
    BY <1>4 DEF WriteCut, childVars
<1>5. CASE WriteClose
    BY <1>5 DEF WriteClose, childVars
<1>6. CASE UpdateRead
    BY <1>6, FeedAssumption DEF UpdateRead, childVars, guiVars
<1>7. CASE UpdateEof
    BY <1>7 DEF UpdateEof, childVars
<1>13. CASE OnStop
    BY <1>13 DEF OnStop, childVars
<1>14. CASE UpdateCancel
    BY <1>14 DEF UpdateCancel
<1>8. CASE ChildRead
    BY <1>8 DEF ChildRead, guiVars
<1>9. CASE \E n \in 0..MaxSize : ChildEof(n)
    BY <1>9 DEF ChildEof, guiVars
<1>10. CASE ChildPrint
    BY <1>10 DEF ChildPrint, guiVars
<1>11. CASE ChildExit
    BY <1>11 DEF ChildExit, guiVars
<1>12. CASE UNCHANGED vars
    BY <1>12 DEF vars, childVars, guiVars
<1> QED
    BY <1>1, <1>2, <1>3, <1>4, <1>5, <1>6, <1>7, <1>8, <1>9, <1>10, <1>11,
       <1>12, <1>13, <1>14
    DEF Next

LEMMA LimitStep == IInv /\ [Next]_vars => LimitInv'
<1> SUFFICES ASSUME TypeOK, OutputInv, LimitInv, [Next]_vars PROVE LimitInv'
    BY DEF IInv
<1>1. CASE \E n \in 1..MaxSize, cmd \in Commands : OnRun(n, cmd)
    <2>1. Small'
        BY <1>1, FeedAssumption DEF OnRun, Small
    <2> QED
        BY <2>1 DEF LimitInv
<1>2. CASE UpdateRead
    <2>1. stop' \/ Small'
        <3>1. CASE shown' > Chunk + 1
            BY <1>2, <3>1, Zenon DEF UpdateRead
        <3>2. CASE ~(shown' > Chunk + 1)
            <4>1. shown' \in Int
                BY <1>2, FeedAssumption DEF UpdateRead, TypeOK
            <4> QED
                BY <3>2, <4>1, FeedAssumption DEF Small
        <3> QED
            BY <3>1, <3>2
    <2>2. outcome' = "none"
        BY <1>2 DEF UpdateRead, OutputInv
    <2> QED
        BY <2>1, <2>2 DEF LimitInv
<1>3. ASSUME UNCHANGED shown PROVE LimitInv'
    <2>1. Small' <=> Small
        BY <1>3 DEF Small
    <2>2. CASE UpdateEof
        <3>1. outcome # "cancel"
            BY <2>2 DEF UpdateEof, OutputInv
        <3>2. Small
            BY <2>2, <3>1, Zenon DEF UpdateEof, LimitInv
        <3> QED
            BY <2>1, <3>2, Zenon DEF LimitInv
    <2>3. CASE OnStop
        BY <2>1, <2>3, Zenon DEF OnStop, LimitInv
    <2>4. CASE UpdateCancel
        <3>1. outcome' = "cancel"
            BY <2>4 DEF UpdateCancel
        <3> QED
            BY <3>1 DEF LimitInv
    <2>5. CASE UNCHANGED <<stop, outcome>>
        BY <2>1, <2>5, Zenon DEF LimitInv
    <2> QED
        BY <1>1, <1>2, <2>2, <2>3, <2>4, <2>5
        DEF Next, NextWrite, WriteByte, WriteCut, WriteClose, ChildRead,
            ChildEof, ChildPrint, ChildExit, guiVars, vars
<1> QED
    BY <1>1, <1>2, <1>3
    DEF Next, NextWrite, WriteByte, WriteCut, WriteClose, OnStop, UpdateEof,
        UpdateCancel, ChildRead, ChildEof, ChildPrint, ChildExit, guiVars, vars

LEMMA TypeStep == IInv /\ [Next]_vars => TypeOK'
<1> SUFFICES ASSUME IInv, [Next]_vars PROVE TypeOK'
    OBVIOUS
<1> USE FeedAssumption DEF IInv, TypeOK
<1>1. ASSUME NEW n \in 1..MaxSize, NEW cmd \in Commands, OnRun(n, cmd)
      PROVE  TypeOK'
    <2>1. n \div Chunk \in Nat /\ n % Chunk \in 0..Chunk - 1
        BY Division
    <2>2. moved' \in BOOLEAN /\ stdinOpen' \in BOOLEAN /\ stop' \in BOOLEAN
        BY <1>1, Zenon DEF OnRun
    <2> QED
        BY <1>1, <2>1, <2>2 DEF OnRun
<1>2. CASE NextWrite
    <2>1. moved' \in BOOLEAN
        BY <1>2, Zenon DEF NextWrite
    <2> QED
        BY <1>2, <2>1 DEF NextWrite, childVars
<1>3. CASE WriteByte
    BY <1>3 DEF WriteByte, childVars
<1>4. CASE WriteCut
    BY <1>4 DEF WriteCut, childVars
<1>5. CASE WriteClose
    BY <1>5 DEF WriteClose, childVars
<1>6. CASE UpdateRead
    <2>1. stop' \in BOOLEAN
        BY <1>6, Zenon DEF UpdateRead
    <2> QED
        BY <1>6, <2>1 DEF UpdateRead, childVars
<1>7. CASE UpdateEof
    BY <1>7 DEF UpdateEof, childVars
<1>13. CASE OnStop
    BY <1>13 DEF OnStop, childVars
<1>14. CASE UpdateCancel
    <2>1. stop' \in BOOLEAN
        BY <1>14, Zenon DEF UpdateCancel
    <2> QED
        BY <1>14, <2>1 DEF UpdateCancel
<1>8. CASE ChildRead
    <2>1. taken < size
        BY <1>8, UnwrittenIsNat DEF ChildRead, InputInv
    <2> QED
        BY <1>8, <2>1 DEF ChildRead, guiVars
<1>9. CASE \E n \in 0..MaxSize : ChildEof(n)
    BY <1>9 DEF ChildEof, guiVars
<1>10. CASE ChildPrint
    BY <1>10 DEF ChildPrint, guiVars
<1>11. CASE ChildExit
    BY <1>11 DEF ChildExit, guiVars
<1>12. CASE UNCHANGED vars
    BY <1>12 DEF vars, childVars, guiVars
<1> QED
    BY <1>1, <1>2, <1>3, <1>4, <1>5, <1>6, <1>7, <1>8, <1>9, <1>10, <1>11,
       <1>12, <1>13, <1>14
    DEF Next

\* The invariant is inductive.
THEOREM FeedInvariance == Spec => []IInv
<1>1. IInv /\ [Next]_vars => IInv'
    BY TypeStep, InputStep, OutputStep, LimitStep DEF IInv
<1> QED
    BY Initial, <1>1, PTL DEF Spec

-----------------------------------------------------------------------------
(* What follows from it.                                                   *)

\* Counters and pipes stay within their bounds; the program reads no more
\* than the document has.
THEOREM TypeCorrect == Spec => []TypeOK
<1>1. IInv => TypeOK
    BY DEF IInv
<1> QED
    BY FeedInvariance, <1>1, PTL

\* i_OnRun's split of the document into n / Chunk whole writes and one of
\* n % Chunk feeds a command that reads to the end exactly the document.
THEOREM FedIsWholeTheorem == Spec => []FedIsWhole
<1>1. IInv => FedIsWhole
    BY DEF IInv, InputInv
<1> QED
    BY FeedInvariance, <1>1, PTL

\* i_run_update ends a run only when all that was printed is displayed.
THEOREM ShownIsPrintedTheorem == Spec => []ShownIsPrinted
<1>1. IInv => ShownIsPrinted
    BY DEF IInv, TypeOK, OutputInv, LimitInv, Small, ShownIsPrinted
<1> QED
    BY FeedInvariance, <1>1, PTL

\* The GUI thread in bproc_write and the command wait for each other only
\* over a document of more than two pipes and one byte, whatever the command:
\* the one that is frozen is cat, and what it has printed is in its pipe.
THEOREM FreezeIsLargeTheorem == Spec => []FreezeIsLarge
<1>1. IInv => FreezeIsLarge
    <2> SUFFICES ASSUME IInv, Frozen PROVE size > 2 * PipeSize + 1
        BY DEF FreezeIsLarge
    <2>1. command = "cat"
        BY DEF IInv, InputInv, OutputInv, Frozen, Drains
    <2>2. taken = PipeSize + 1
        BY <2>1, FeedAssumption DEF IInv, TypeOK, OutputInv, Frozen
    <2>3. Unwritten \in Nat /\ Unwritten > 0
        BY UnwrittenIsNat, FeedAssumption DEF IInv, TypeOK, Frozen
    <2> QED
        BY <2>2, <2>3, FeedAssumption DEF IInv, TypeOK, InputInv, Frozen
<1> QED
    BY FeedInvariance, <1>1, PTL
=============================================================================
