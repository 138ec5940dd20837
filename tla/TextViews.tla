------------------------------ MODULE TextViews ------------------------------
(***************************************************************************)
(* What Search and ReplaceLines share: the text views of the main window,  *)
(* which a run fills, and whether one is under way.  A character is one    *)
(* byte here, and a view shows less than its limit (see OutputBuffer).     *)
(***************************************************************************)
EXTENDS Integers, Sequences

CONSTANTS
    Letters     \* characters of words

ASSUME TextAssumption ==
    /\ Letters \subseteq STRING
    /\ " " \notin Letters /\ "nl" \notin Letters

Space == " "
NewLine == "nl"
Chars == Letters \union {Space, NewLine}

VARIABLES
    run,    \* run_state is not ENDED
    text,   \* what each text view displays
    fault   \* "none", or what a failed assertion or a wild access hit

Views == {"stdout", "stderr"}

ViewsTypeOK ==
    /\ run \in BOOLEAN
    /\ text \in [Views -> Seq(Chars)]
    /\ fault \in {"none", "index", "pointer", "overflow"}

\* s without its elements after the first a up to the b-th, and with r in their
\* place; positions past the end are the end (gtk_text_iter_forward_chars).
Splice(s, a, b, r) ==
    SubSeq(s, 1, IF a < Len(s) THEN a ELSE Len(s)) \o r \o SubSeq(s, b + 1, Len(s))
=============================================================================
