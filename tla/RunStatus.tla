----------------------------- MODULE RunStatus -----------------------------
(***************************************************************************)
(* What kutes promises the user about one command line: the label in the   *)
(* status bar tells the truth, and the output pane holds the output.       *)
(*                                                                         *)
(*   - "running" and "stopping" are shown while a command is under way,    *)
(*     and only then can output be written or displayed;                   *)
(*   - "completed" is shown only when everything the command wrote has     *)
(*     been displayed;                                                     *)
(*   - "stopped" is shown only after the user asked for a stop;            *)
(*   - the label "unknown" of const.c is never shown.                      *)
(*                                                                         *)
(* There is no thread, no pipe and no process here: CommandRun is shown to *)
(* implement this module.                                                  *)
(***************************************************************************)
EXTENDS Naturals

CONSTANT Streams     \* the output streams of a command

VARIABLES
    status,     \* the text of the status label
    written,    \* chunks the command of the current run wrote, per stream
    shown,      \* chunks of them the program displayed and stored
    open        \* the window has not been closed

vars == <<status, written, shown, open>>

Active  == {"running", "stopping"}
Settled == {"ready", "completed", "stopped"}
Nothing == [s \in Streams |-> 0]

TypeOK ==
    /\ status \in Active \cup Settled
    /\ written \in [Streams -> Nat]
    /\ shown \in [Streams -> Nat]
    /\ open \in BOOLEAN

Init ==
    /\ status = "ready"
    /\ written = Nothing
    /\ shown = Nothing
    /\ open = TRUE

\* Pressing run clears the pane; with an empty command line that is all.
Begin(label) ==
    /\ open
    /\ status \in Settled
    /\ status' = label
    /\ written' = Nothing
    /\ shown' = Nothing
    /\ UNCHANGED open

Write(s) ==
    /\ status \in Active
    /\ written' = [written EXCEPT ![s] = @ + 1]
    /\ UNCHANGED <<status, shown, open>>

\* Output is displayed in the order written, never twice, never invented.
Show ==
    /\ status \in Active
    /\ shown' \in [Streams -> Nat]
    /\ \A s \in Streams : shown[s] <= shown'[s] /\ shown'[s] <= written[s]
    /\ UNCHANGED <<status, written, open>>

AskStop ==
    /\ open
    /\ status \in Active
    /\ status' = "stopping"
    /\ UNCHANGED <<written, shown, open>>

Complete ==
    /\ open
    /\ status \in Active
    /\ shown = written
    /\ status' = "completed"
    /\ UNCHANGED <<written, shown, open>>

Stopped ==
    /\ open
    /\ status = "stopping"
    /\ status' = "stopped"
    /\ UNCHANGED <<written, shown, open>>

Close ==
    /\ open' = FALSE
    /\ UNCHANGED <<status, written, shown>>

Next ==
    \/ Begin("ready")
    \/ Begin("running")
    \/ \E s \in Streams : Write(s)
    \/ Show
    \/ AskStop
    \/ Complete
    \/ Stopped
    \/ Close

Spec == Init /\ [][Next]_vars

\* A stop request is answered unless the window is closed first.
Settle == status = "stopping" /\ (Complete \/ Stopped)

FairSpec == Spec /\ WF_vars(Settle)
=============================================================================
