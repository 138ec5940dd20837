---------------------------- MODULE OutputBuffer ----------------------------
(***************************************************************************)
(* Where the output of the main command goes: parse_buf, which keeps what  *)
(* will be parsed as JSON, and the two text views, which display a bounded *)
(* tail of each stream (write_result and i_run_update of kutes.c).         *)
(*                                                                         *)
(* Bytes are counted, not represented: "stored" is how long a prefix of    *)
(* parse_buf is what the command printed, "extent" how much of it has been *)
(* written since it was allocated.  The order of ticks, threads and the    *)
(* command is the subject of CommandRun; replace mode, which does not use  *)
(* parse_buf, is not modelled here.                                        *)
(***************************************************************************)
EXTENDS Integers

CONSTANTS
    ReadMax,        \* READ_BUFFER - 1, the most one read returns
    InitialParse,   \* INITIAL_PARSE_SIZE
    IncrParse,      \* INCR_PARSE_SIZE
    Padding,        \* YYJSON_PADDING_SIZE
    MinParse,       \* output this short is an empty list
    MaxOut,         \* MAX_OUT_SIZE
    MaxErr,         \* MAX_ERR_SIZE
    Word,           \* 2^32, the range of out_len and err_len
    CharBytes,      \* bytes of the longest character
    MaxTotal        \* bound: bytes a command prints to a stream

ASSUME SizeAssumption ==
    /\ ReadMax \in Nat /\ ReadMax > 0
    /\ InitialParse \in Nat
    /\ IncrParse \in Nat /\ IncrParse >= ReadMax
    /\ Padding \in Nat /\ MinParse \in Nat
    /\ MaxOut \in Nat /\ MaxOut >= ReadMax
    /\ MaxErr \in Nat /\ MaxErr >= ReadMax
    /\ Word \in Nat /\ Word > ReadMax
    /\ CharBytes \in Nat /\ CharBytes > 0
    /\ MaxTotal \in Nat

Streams == {"stdout", "stderr"}

Limit(s) == IF s = "stdout" THEN MaxOut ELSE MaxErr

VARIABLES
    running,    \* run_state is INPROGRESS
    nolimit,    \* app->nolimit
    noshow,     \* the check box
    focus,      \* the text view with the focus, or "none"
    total,      \* bytes the run has printed to each stream
    len,        \* app->out_len and app->err_len
    parseSize,  \* app->parse_size
    stored,
    extent,
    handed,     \* how populate_views got the output, or "no"
    disp,       \* bytes displayed in each text view
    touched     \* history of the run: the views that had the focus when they
                \* were written to, and "noshow" if output was not displayed

userVars  == <<nolimit, noshow, focus>>
bufVars   == <<parseSize, stored, extent>>
vars      == <<running, userVars, total, len, bufVars, handed, disp, touched>>

TypeOK ==
    /\ running \in BOOLEAN
    /\ nolimit \in BOOLEAN
    /\ noshow \in BOOLEAN
    /\ focus \in Streams \union {"none"}
    /\ total \in [Streams -> 0..MaxTotal]
    /\ len \in [Streams -> 0..Word - 1]
    /\ parseSize \in Nat
    /\ stored \in Nat
    /\ extent \in Nat
    /\ handed \in {"no", "limited", "nolimit"}
    /\ disp \in [Streams -> Nat]
    /\ touched \subseteq Streams \union {"noshow"}

Zero == [s \in Streams |-> 0]

Init ==
    /\ running = FALSE
    /\ nolimit = FALSE
    /\ noshow = FALSE
    /\ focus = "none"
    /\ total = Zero
    /\ len = Zero
    /\ parseSize = InitialParse + (ReadMax + 1) + Padding
    /\ stored = 0
    /\ extent = 0
    /\ handed = "no"
    /\ disp = Zero
    /\ touched = {}

-----------------------------------------------------------------------------
(* The user.                                                               *)

NolimitEnabled_mut == TRUE      \* cell_enabled(app->nolimitb, FALSE) forgotten

NolimitEnabled == ~running

NoSizeLimit ==
    /\ NolimitEnabled
    /\ nolimit' = ~nolimit
    /\ UNCHANGED <<running, noshow, focus, total, len, bufVars, handed, disp,
                   touched>>

Hide ==
    /\ noshow' = ~noshow
    /\ UNCHANGED <<running, nolimit, focus, total, len, bufVars, handed, disp,
                   touched>>

Focus(view) ==
    /\ focus' = view
    /\ UNCHANGED <<running, nolimit, noshow, total, len, bufVars, handed, disp,
                   touched>>

\* i_OnRun; without a command it only resets.
OnRun(command) ==
    /\ ~running
    /\ running' = command
    /\ total' = Zero
    /\ len' = Zero
    /\ stored' = 0
    /\ handed' = "no"
    /\ disp' = Zero
    /\ touched' = {}
    /\ UNCHANGED <<userVars, parseSize, extent>>

-----------------------------------------------------------------------------
(* One tick that reads n bytes of stdout and m of stderr.                  *)

Wrap(x) == IF x < Word THEN x ELSE x - Word

Larger(x, y) == IF x < y THEN y ELSE x

Smaller(x, y) == IF x < y THEN x ELSE y

\* The reallocation of write_result.
Grown(n) ==
    IF nolimit /\ Wrap(len["stdout"] + n) > parseSize
    THEN parseSize + IncrParse
    ELSE parseSize

Copies_mut == len["stdout"] < InitialParse  \* nolimit grows but does not copy

Copies == nolimit \/ len["stdout"] < InitialParse

\* The copy of write_result, at out_len, of what comes after "total" bytes.
Store(n) ==
    IF Copies
    THEN /\ extent' = Larger(extent, len["stdout"] + n)
         /\ stored' = IF len["stdout"] # total["stdout"]
                      THEN Smaller(stored, len["stdout"])
                      ELSE IF stored = total["stdout"] THEN stored + n
                                                       ELSE stored
    ELSE UNCHANGED <<stored, extent>>

Deleted_mut2(s, n) == {disp[s]}         \* textview_select(0, -1)

\* textview_select(0, n) and textview_del_select: with the focus elsewhere
\* the first n characters go, in the focused view what the user selected.
Deleted(s, n) ==
    IF focus = s THEN 0..disp[s]
    ELSE {Smaller(b, disp[s]) : b \in n..n * CharBytes}

Trims_mut(s, n) == len[s] > Limit(s)    \* before this read is counted

Trims(s, n) == Wrap(len[s] + n) > Limit(s)

\* The bytes a text view may display after n more.
Displayed(s, n) ==
    IF n = 0 \/ (s = "stdout" /\ noshow) THEN {disp[s]}
    ELSE IF Trims(s, n) THEN {disp[s] - d + n : d \in Deleted(s, n)}
    ELSE {disp[s] + n}

RunUpdate(n, m) ==
    /\ running
    /\ total["stdout"] + n <= MaxTotal
    /\ total["stderr"] + m <= MaxTotal
    /\ IF n = 0 THEN UNCHANGED bufVars ELSE parseSize' = Grown(n) /\ Store(n)
    /\ len' = [s \in Streams |-> Wrap(len[s] + (IF s = "stdout" THEN n ELSE m))]
    /\ total' = [s \in Streams |-> total[s] + (IF s = "stdout" THEN n ELSE m)]
    /\ \E x \in Displayed("stdout", n), y \in Displayed("stderr", m) :
          disp' = [s \in Streams |-> IF s = "stdout" THEN x ELSE y]
    /\ touched' = touched \union ({focus} \intersect Streams)
                          \union (IF noshow THEN {"noshow"} ELSE {})
    /\ UNCHANGED <<running, userVars, handed>>

-----------------------------------------------------------------------------
(* i_run_end.                                                              *)

Parses ==
    /\ len["stdout"] > MinParse
    /\ nolimit \/ len["stdout"] < InitialParse

RunEnd(complete) ==
    /\ running
    /\ running' = FALSE
    /\ handed' = IF complete /\ Parses
                 THEN IF nolimit THEN "nolimit" ELSE "limited"
                 ELSE "no"
    /\ UNCHANGED <<userVars, total, len, bufVars, disp, touched>>

Next ==
    \/ NoSizeLimit \/ Hide
    \/ \E view \in Streams \union {"none"} : Focus(view)
    \/ \E command \in BOOLEAN : OnRun(command)
    \/ \E n \in 0..ReadMax, m \in 0..ReadMax : RunUpdate(n, m)
    \/ \E complete \in BOOLEAN : RunEnd(complete)

Spec == Init /\ [][Next]_vars

-----------------------------------------------------------------------------
(* Safety, of commands that print less than Word bytes.                    *)

\* The copies of write_result stay inside parse_buf: one reallocation is
\* always enough, because nolimit cannot change during a run.
WritesFit == extent <= parseSize

\* populate_views gets all the command printed, as it was printed.
HandedIsWhole ==
    handed # "no" =>
        /\ total["stdout"] > MinParse
        /\ len["stdout"] = total["stdout"]
        /\ stored = total["stdout"]

\* Without nolimit, output of 4 MiB or more is not parsed.
LimitIsKept == handed = "limited" => total["stdout"] < InitialParse

\* A text view displays at most its limit, however "noshow" is switched and
\* however many bytes a character has, unless it is written to while it has
\* the focus.
DisplayBounded == \A s \in Streams \ touched : disp[s] <= Limit(s)

\* The streams all of whose output went to a text view the user left alone.
Displays(s) == s \notin touched /\ (s = "stdout" => "noshow" \notin touched)

\* While every character is one byte, such a stream shows all that was printed,
\* or all but one read of as much as the limit allows.
DisplayKeepsTail ==
    \A s \in Streams :
        Displays(s) => disp[s] >= Smaller(total[s], Limit(s) + 1 - ReadMax)
=============================================================================
