----------------------------- MODULE ReplaceLines -----------------------------
(***************************************************************************)
(* Replace mode (replace_result of kutes.c): a line of the output replaces *)
(* the displayed line that begins with the same word, so that a command    *)
(* that reports progress has one line per item.  dict numbers the words,   *)
(* pos_lens has where each line is displayed, and every replacement by a   *)
(* line of another length moves the ones below.  The output is taken one   *)
(* character a step, which is every way it can be cut into reads.  The     *)
(* user may click into the view, or out of it, between any two lines.      *)
(***************************************************************************)
EXTENDS TextViews, FiniteSets

CONSTANTS
    LineSize,   \* sizeof(app->cur_line)
    NameSize,   \* sizeof(line.name)
    MaxLines    \* bound: lines a run prints

ASSUME LineAssumption ==
    /\ LineSize \in Nat /\ LineSize > 1
    /\ NameSize \in Nat /\ NameSize > 0
    /\ MaxLines \in Nat

VARIABLES
    replace,    \* app->replace_line
    cur_line,   \* the first cur_start characters of app->cur_line
    dict,       \* from first word to number of the line
    pos_lens,   \* start of each displayed line, and where its newline is
    heard,      \* history: the lines this run has printed
    partial,    \* history: what it has printed since
    carried,    \* history: the run began with a cur_line left by another
    touched     \* history: a line was replaced while the view had the focus

lineVars == <<replace, cur_line, dict, pos_lens, heard, partial, carried, touched>>
vars == <<run, text, fault, lineVars>>

Words == UNION {[1..n -> Letters] : n \in 0..NameSize - 1}

TypeOK ==
    /\ ViewsTypeOK
    /\ replace \in BOOLEAN
    /\ cur_line \in Seq(Letters \union {Space}) /\ Len(cur_line) <= LineSize
    /\ DOMAIN dict \subseteq Words
    /\ \A w \in DOMAIN dict : dict[w] \in 1..Len(pos_lens)
    /\ pos_lens \in Seq([start : Nat, end : Nat])
    /\ heard \in Seq(Seq(Letters \union {Space}))
    /\ partial \in Seq(Letters \union {Space})
    /\ carried \in BOOLEAN
    /\ touched \in BOOLEAN

Init ==
    /\ run = FALSE
    /\ text = [v \in Views |-> <<>>]
    /\ fault = "none"
    /\ replace = FALSE
    /\ cur_line = <<>>
    /\ dict = <<>>
    /\ pos_lens = <<>>
    /\ heard = <<>> /\ partial = <<>>
    /\ carried = FALSE /\ touched = FALSE

-----------------------------------------------------------------------------

\* The first word of a line: what comes before the first space.
Name(l) ==
    LET spaces == {i \in DOMAIN l : l[i] = Space}
    IN  SubSeq(l, 1, IF spaces = {} THEN Len(l)
                     ELSE (CHOOSE i \in spaces : \A j \in spaces : i <= j) - 1)

\* Where textview_cpos_printf puts a line that replaces the characters from
\* "from" up to "to": in a view with the focus it replaces what the user has
\* selected there, or goes where his cursor is (ostext_ins_text).
Inserted(focus, from, to, l) ==
    LET t == text["stdout"] IN
    IF ~focus THEN {Splice(t, from, to, l)}
    ELSE UNION {{Splice(t, a, b, l) : b \in a..Len(t)} : a \in 0..Len(t)}

Shifted_mut(i, n, diff) ==      \* the lines below keep their positions
    IF i # n THEN pos_lens[i] ELSE [pos_lens[i] EXCEPT !.end = @ + diff]

\* The position of the i-th line after the n-th has grown by diff.
Shifted(i, n, diff) ==
    IF i < n THEN pos_lens[i]
    ELSE IF i = n THEN [pos_lens[i] EXCEPT !.end = @ + diff]
    ELSE [start |-> pos_lens[i].start + diff, end |-> pos_lens[i].end + diff]

\* A line whose first word is known.
Replaced(l) ==
    LET n    == dict[Name(l)]
        old  == pos_lens[n]
        diff == old.start + Len(l) - old.end
    IN  /\ \E focus \in BOOLEAN :
              /\ touched' = (touched \/ focus)
              /\ \E t \in Inserted(focus, old.start, old.end + 1, Append(l, NewLine)) :
                    text' = [text EXCEPT !["stdout"] = t]
        /\ pos_lens' = [i \in DOMAIN pos_lens |-> Shifted(i, n, diff)]
        /\ UNCHANGED dict

\* A line whose first word is new goes to the end, wherever the focus is.
Added(l) ==
    LET n     == Len(pos_lens)
        start == IF n = 0 THEN 0 ELSE pos_lens[n].end + 1
    IN  /\ text' = [text EXCEPT !["stdout"] = @ \o Append(l, NewLine)]
        /\ pos_lens' = Append(pos_lens, [start |-> start, end |-> start + Len(l)])
        /\ dict' = [w \in DOMAIN dict \union {Name(l)} |->
                       IF w \in DOMAIN dict THEN dict[w] ELSE n + 1]
        /\ UNCHANGED touched

Overflow ==
    /\ fault' = "overflow"
    /\ UNCHANGED <<text, cur_line, dict, pos_lens, touched>>

\* A line is complete.
LineEnd ==
    /\ IF Len(cur_line) + 2 > LineSize \/ Len(Name(cur_line)) >= NameSize
       THEN Overflow
       ELSE /\ IF Name(cur_line) \in DOMAIN dict THEN Replaced(cur_line)
                                                 ELSE Added(cur_line)
            /\ cur_line' = <<>>
            /\ UNCHANGED fault
    /\ heard' = Append(heard, partial)
    /\ partial' = <<>>

LineChar(c) ==
    /\ IF Len(cur_line) = LineSize
       THEN Overflow
       ELSE /\ cur_line' = Append(cur_line, c)
            /\ UNCHANGED <<text, fault, dict, pos_lens, touched>>
    /\ partial' = Append(partial, c)
    /\ UNCHANGED heard

\* One character of replace_result.
ReplaceResult(c) ==
    /\ run /\ replace
    /\ Len(heard) < MaxLines
    /\ IF c = NewLine THEN LineEnd ELSE LineChar(c)
    /\ UNCHANGED <<run, replace, carried>>

\* One character of write_result, displayed.
WriteResult(c) ==
    /\ run /\ ~replace
    /\ Len(text["stdout"]) < MaxLines
    /\ text' = [text EXCEPT !["stdout"] = Append(@, c)]
    /\ UNCHANGED <<run, fault, lineVars>>

\* The button, enabled between runs only.
ReplaceLine ==
    /\ ~run
    /\ replace' = ~replace
    /\ UNCHANGED <<run, text, fault, cur_line, dict, pos_lens, heard, partial,
                   carried, touched>>

\* i_OnRun, and i_run_end: neither resets cur_line.
OnRun(command) ==
    /\ ~run /\ run' = command
    /\ text' = [v \in Views |-> <<>>]
    /\ IF command /\ replace THEN dict' = <<>> ELSE UNCHANGED dict
    /\ carried' = (cur_line # <<>>)
    /\ heard' = <<>> /\ partial' = <<>> /\ touched' = FALSE
    /\ UNCHANGED <<fault, replace, cur_line, pos_lens>>

RunEnd ==
    /\ run /\ run' = FALSE
    /\ IF replace THEN pos_lens' = <<>> /\ dict' = <<>> ELSE UNCHANGED <<pos_lens, dict>>
    /\ UNCHANGED <<text, fault, replace, cur_line, heard, partial, carried, touched>>

Next ==
    \/ /\ fault = "none"
       /\ \/ \E c \in Chars : ReplaceResult(c) \/ WriteResult(c)
          \/ ReplaceLine
          \/ \E command \in BOOLEAN : OnRun(command)
          \/ RunEnd
    \/ fault # "none" /\ UNCHANGED vars     \* the program has failed

Spec == Init /\ [][Next]_vars

-----------------------------------------------------------------------------
(* Properties, of the lines of a run.                                      *)

\* The positions cover the text without gap or overlap, each ends at a newline,
\* and the word under which dict has a line is the word it begins with:
\* after any sequence of longer and shorter replacements.
LinesTile ==
    run /\ replace /\ ~touched =>
        /\ \A i \in DOMAIN pos_lens :
              /\ pos_lens[i].start = IF i = 1 THEN 0 ELSE pos_lens[i - 1].end + 1
              /\ text["stdout"][pos_lens[i].end + 1] = NewLine
              /\ \E w \in DOMAIN dict : dict[w] = i
        /\ \A w \in DOMAIN dict :
              w = Name(SubSeq(text["stdout"], pos_lens[dict[w]].start + 1,
                                              pos_lens[dict[w]].end))

\* The i-th line of the run that is the first with its word.
FirstOf(i) ==
    LET firsts == {j \in DOMAIN heard : \A k \in 1..j - 1 : Name(heard[k]) # Name(heard[j])}
    IN  CHOOSE j \in firsts : Cardinality({k \in firsts : k <= j}) = i

\* The last line with the word of the j-th.
LatestLike(j) ==
    heard[CHOOSE k \in DOMAIN heard :
             /\ Name(heard[k]) = Name(heard[j])
             /\ \A m \in k + 1..Len(heard) : Name(heard[m]) # Name(heard[j])]

\* What replace mode is for: one line for each first word, in the order in
\* which the words came, and it is the last that began so.  Of a
\* run that found cur_line empty: the one before ended in a newline.
TextIsLatest ==
    run /\ replace /\ ~touched /\ ~carried /\ fault = "none" =>
        /\ Len(pos_lens) = Cardinality({Name(heard[j]) : j \in DOMAIN heard})
        /\ \A i \in DOMAIN pos_lens :
              SubSeq(text["stdout"], pos_lens[i].start + 1, pos_lens[i].end)
                = LatestLike(FirstOf(i))
=============================================================================
