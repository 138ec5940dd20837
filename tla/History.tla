------------------------------- MODULE History -------------------------------
(***************************************************************************)
(* The command line and its history: completion while the user types, the  *)
(* radix tree of known commands, and the file it is appended to (hist.c,   *)
(* i_OnEditFilter, i_OnEditChange and the first lines of i_OnRun of        *)
(* kutes.c), with a program that may be killed at any time and another     *)
(* instance of it that appends to the same file.                           *)
(*                                                                         *)
(* The file is a sequence of cells, numbers: the length of a command, or a *)
(* character.  A character read as a length is larger than any file.  What *)
(* is appended goes through the buffer of the stream, which is written     *)
(* when the next piece does not fit: a length and its command are two      *)
(* pieces.                                                                 *)
(***************************************************************************)
EXTENDS Integers, SequencesExt

CONSTANTS
    Letters,    \* characters other than the space
    CacheSize,  \* DISK_CACHE, cells in the buffer of the stream
    KeyMax,     \* RAX_ITER_STATIC_LEN, characters an iterator has room for
    MaxLine,    \* bound: characters of a command line
    MaxFile     \* bound: cells of the file

Blank == MaxFile + 1

ASSUME HistoryAssumption ==
    /\ CacheSize \in Nat /\ CacheSize > 0
    /\ KeyMax \in Nat
    /\ MaxLine \in Nat /\ MaxFile \in Nat
    /\ Letters \subseteq Nat /\ \A c \in Letters : c > Blank

VARIABLES
    on,         \* the program is running
    fault,      \* "none", or why it failed: "assert", "realloc"
    complete,   \* app->complete
    text,       \* of the command line
    cursor,
    own,        \* history: how much of text the user typed or moved over
    ran,        \* history: how much of it the last run took, and owned
    known,      \* history: the commands somebody ran
    tree,       \* hist->rt
    file,
    buf,        \* buffer of hist->stm
    cause       \* history: what left a command incomplete in the file

vars == <<on, fault, complete, text, cursor, own, ran, known, tree, file,
          buf, cause>>

Chars == Letters \union {Blank}
Lines == UNION {[1..n -> Chars] : n \in 0..MaxLine}

TypeOK ==
    /\ on \in BOOLEAN
    /\ fault \in {"none", "assert", "realloc"}
    /\ complete \in BOOLEAN
    /\ text \in Lines
    /\ cursor \in 0..Len(text)
    /\ own \in 0..MaxLine
    /\ ran \in [took : 0..MaxLine, own : 0..MaxLine]
    /\ known \subseteq Lines
    /\ tree \subseteq Seq(Nat)
    /\ file \in Seq(Nat)
    /\ buf \in Seq(Nat) /\ Len(buf) <= CacheSize
    /\ cause \in {"none", "crash", "overlap"}

Init ==
    /\ on = FALSE
    /\ fault = "none"
    /\ complete = TRUE
    /\ text = <<>> /\ cursor = 0 /\ own = 0
    /\ ran = [took |-> 0, own |-> 0]
    /\ known = {} /\ tree = {}
    /\ file = <<>> /\ buf = <<>>
    /\ cause = "none"

lineVars == <<complete, text, cursor, own, ran>>
fileVars == <<known, tree, file, buf, cause>>

-----------------------------------------------------------------------------
(* The file.                                                               *)

\* What history_load reads of the cells of f from the i-th on, for each i.
Reading(f) ==
    LET From[i \in 1..Len(f) + 1] ==
          IF i > Len(f) THEN [whole |-> TRUE, entries |-> {<<>>}]
          ELSE IF i + f[i] > Len(f) THEN [whole |-> FALSE, entries |-> {<<>>}]
          ELSE LET rest == From[i + f[i] + 1]
               IN  [rest EXCEPT !.entries = @ \union {SubSeq(f, i + 1, i + f[i])}]
    IN  From

Loaded(f) == Reading(f)[1]

Written_mut(f, b, piece) ==     \* the piece is not counted
    IF Len(b) <= CacheSize THEN <<f, b \o piece>> ELSE <<f \o b, piece>>

\* i_write of a stream: what is in the file and what in the buffer.
Written(f, b, piece) ==
    IF Len(b) + Len(piece) <= CacheSize THEN <<f, b \o piece>>
    ELSE IF Len(piece) <= CacheSize THEN <<f \o b, piece>>
    ELSE <<f \o b \o piece, <<>>>>

\* history_load.  At the end of the file it reads once more, and inserts the
\* empty command.
Load ==
    /\ ~on /\ fault = "none"
    /\ IF Loaded(file).whole
       THEN on' = TRUE /\ tree' = Loaded(file).entries /\ UNCHANGED fault
       ELSE fault' = "assert" /\ UNCHANGED <<on, tree>>
    /\ buf' = <<>>
    /\ text' = <<>> /\ cursor' = 0 /\ own' = 0 /\ complete' = TRUE
    /\ ran' = [took |-> 0, own |-> 0]
    /\ UNCHANGED <<known, file, cause>>

Recorded_mut(e) ==              \* the command is written before its length
    IF e \in tree THEN UNCHANGED fileVars
    ELSE LET d == Written(file, buf, e)
             l == Written(d[1], d[2], <<Len(e)>>)
         IN  /\ tree' = tree \union {e} /\ known' = known \union {e}
             /\ file' = l[1] /\ buf' = l[2]
             /\ UNCHANGED cause

\* history_append.
Recorded(e) ==
    IF e \in tree THEN UNCHANGED fileVars
    ELSE LET l == Written(file, buf, <<Len(e)>>)
             d == Written(l[1], l[2], e)
         IN  /\ tree' = tree \union {e} /\ known' = known \union {e}
             /\ file' = d[1] /\ buf' = d[2]
             /\ UNCHANGED cause

Quit_mut ==                     \* the stream is not closed
    /\ on /\ fault = "none"
    /\ on' = FALSE
    /\ buf' = <<>>
    /\ UNCHANGED <<fault, lineVars, known, tree, file, cause>>

\* history_flush.
Quit ==
    /\ on /\ fault = "none"
    /\ on' = FALSE
    /\ file' = file \o buf /\ buf' = <<>>
    /\ UNCHANGED <<fault, lineVars, known, tree, cause>>

\* The program is killed, and the buffer lost.
Kill ==
    /\ on
    /\ on' = FALSE /\ buf' = <<>> /\ fault' = "none"
    /\ cause' = IF Loaded(file).whole THEN cause ELSE "crash"
    /\ UNCHANGED <<lineVars, known, tree, file>>

\* Another instance ends that has run one command.
OtherQuits(e) ==
    /\ e # <<>> /\ e[1] # Blank
    /\ Len(file) + Len(buf) + 1 + Len(e) <= MaxFile
    /\ file' = file \o <<Len(e)>> \o e
    /\ known' = known \union {e}
    /\ cause' = IF Loaded(file).whole THEN cause ELSE "overlap"
    /\ UNCHANGED <<on, fault, lineVars, tree, buf>>

-----------------------------------------------------------------------------
(* The command line.                                                       *)

IsPrefixOf(p, s) == Len(p) <= Len(s) /\ SubSeq(s, 1, Len(p)) = p

\* Keys of the tree in order, a prefix before what it begins.
Before(s, t) ==
    \/ IsPrefixOf(s, t)
    \/ \E i \in 1..Len(s) :
          i <= Len(t) /\ s[i] < t[i] /\ SubSeq(s, 1, i - 1) = SubSeq(t, 1, i - 1)

\* The key an iterator stops at that looks for p or what comes after it.
Seek(p) ==
    LET later == {e \in tree : Before(p, e)}
    IN  IF later = {} THEN <<>> ELSE CHOOSE e \in later : \A d \in later : Before(e, d)

\* history_search works on a copy of the iterator: a key longer than the room
\* inside it, the answer or one on the way to it, makes rax reallocate a piece
\* of the original.
MustOverrun(p) == Len(Seek(p)) > KeyMax

MayOverrun(p) == \E e \in tree : Len(e) > KeyMax

\* The new text when the user has made it p, with the cursor at pos; deleted
\* is p->len < 0.
Completed(p, pos, deleted) ==
    LET prefix == SubSeq(p, 1, pos)
        found  == Seek(prefix)
    IN  IF ~complete THEN p
        ELSE IF pos = 0 /\ deleted THEN <<>>
        ELSE IF IsPrefixOf(prefix, found) /\ found # <<>> THEN found ELSE prefix

Searches(pos, deleted) == complete /\ ~(pos = 0 /\ deleted)

Larger(x, y) == IF x < y THEN y ELSE x

\* A GtkTextBuffer does not say how much was deleted (it passes INT32_MAX), so
\* the edit takes the difference to the text it knew.
Shortened(p) == Len(p) < Len(text)

\* What i_OnEditFilter answers reaches the buffer in an idle callback, merged
\* here with the handler: it runs when no event is left, and an edit or a move
\* of the cursor before it leaves the same text before the cursor.
UpdateSelect(line, pos) == text' = line /\ cursor' = pos

\* i_OnEditFilter: the user inserts c before the cursor, or deletes the
\* character at i.
OnEditFilter(p, pos, deleted) ==
    /\ on /\ fault = "none"
    /\ Searches(pos, deleted) => ~MustOverrun(SubSeq(p, 1, pos))
    /\ UpdateSelect(Completed(p, pos, deleted), pos)
    /\ own' = IF complete THEN pos
              ELSE IF deleted THEN Larger(pos, own - 1) ELSE own + 1
    /\ UNCHANGED <<on, fault, complete, ran, fileVars>>

Insert(c) ==
    /\ Len(text) < MaxLine
    /\ OnEditFilter(InsertAt(text, cursor + 1, c), cursor + 1, FALSE)

\* Backspace and Delete.
Delete(i) ==
    /\ i \in {cursor, cursor + 1} \intersect (1..Len(text))
    /\ LET p == RemoveAt(text, i) IN OnEditFilter(p, i - 1, Shortened(p))

Overrun(p) ==
    /\ on /\ fault = "none" /\ complete
    /\ p # <<>> /\ MayOverrun(p)
    /\ fault' = "realloc"
    /\ UNCHANGED <<on, lineVars, fileVars>>

MoveCursor(c) ==
    /\ on /\ fault = "none"
    /\ cursor' = c
    /\ own' = Larger(own, c)
    /\ UNCHANGED <<on, fault, complete, text, ran, fileVars>>

\* The check box.
OnComplete ==
    /\ on /\ fault = "none"
    /\ complete' = ~complete
    /\ UNCHANGED <<on, fault, text, cursor, own, ran, fileVars>>

Taken_mut == Len(text)          \* the whole text, as a shell would

\* app->cpos: i_OnEditChange notes the cursor when the button takes the focus.
Taken == cursor

\* i_OnRun: what is before the cursor is run, and remembered.
OnRun ==
    /\ on /\ fault = "none"
    /\ Len(file) + Len(buf) + 1 + Len(text) <= MaxFile
    /\ ran' = [took |-> Taken, own |-> own]
    /\ IF Taken > 0 /\ text[1] # Blank THEN Recorded(SubSeq(text, 1, Taken))
                                       ELSE UNCHANGED fileVars
    /\ UNCHANGED <<on, fault, complete, text, cursor, own>>

Next ==
    \/ Load \/ Quit \/ Kill
    \/ \E e \in Lines : OtherQuits(e)
    \/ \E c \in Chars : Insert(c)
    \/ \E i \in 1..MaxLine : Delete(i)
    \/ \E p \in Lines : Overrun(p)
    \/ \E c \in 0..Len(text) : MoveCursor(c)
    \/ OnComplete
    \/ OnRun

Spec == Init /\ [][Next]_vars

-----------------------------------------------------------------------------
(* Properties.                                                             *)

\* While nobody was killed between a length and its command, and no other
\* instance wrote there, the file and the buffer hold exactly commands that
\* were run, and every command the completion knows: a restart forgets nothing
\* and invents nothing.
FileIsTree ==
    cause = "none" =>
        /\ Loaded(file \o buf).whole
        /\ Loaded(file \o buf).entries \subseteq known \union {<<>>}
        /\ on => tree \subseteq Loaded(file \o buf).entries

\* A command that was known at an orderly end is known from then on.
QuitKeepsAll ==
    [][Quit /\ cause = "none" => Loaded(file').whole /\ tree \subseteq Loaded(file').entries]_vars

\* The program fails only over a file that was left incomplete, or a command
\* longer than the room in the iterator.
FaultHasCause ==
    /\ fault = "assert" => cause # "none"
    /\ fault = "realloc" => \E e \in tree : Len(e) > KeyMax

\* What is run was typed by the user, or passed by his cursor: never the rest
\* of a command that was only proposed to him.
RanIsOwn == ran.took <= ran.own
=============================================================================
