----------------------------- MODULE Workspace -----------------------------
(***************************************************************************)
(* The main window as a whole: the command run, the views built from its   *)
(* JSON output, and the filter commands run from one of those views.       *)
(*                                                                         *)
(*   kutes.c   i_OnRun tears the views of the last run down and starts the *)
(*             command; i_run_end builds new views through populate_views  *)
(*   list.c    a List of pods gives a table view, any other kind a text    *)
(*             view, and both a filter view whose commands read the JSON   *)
(*                                                                         *)
(* The filter has its own process, task and run state, but shares with the *)
(* main run the document, the status label, the popup that selects a view  *)
(* and the scheduler; lock_view is all that keeps the two apart.  The      *)
(* threads and pipes of one run are the subject of CommandRun: here a      *)
(* handler is one step, the task is in the scheduler while its run state   *)
(* is not ENDED, and its thread ends some time after the process closed.   *)
(***************************************************************************)
EXTENDS Integers, Sequences

CONSTANTS
    ReadBuffer,     \* READ_BUFFER of kt.h, in units of output
    MaxStale        \* bound: NULL entries left in app->views

ASSUME BoundAssumption == ReadBuffer \in Nat /\ ReadBuffer > 1 /\ MaxStale \in Nat

VARIABLES
    life,       \* "open", "closing" after osapp_finish, "exited"
    mrun,       \* app->run_state
    mstop,      \* app->stop
    frun,       \* run_state of the filter view's data
    fstop,      \* its stop
    ftot,       \* its tot_len
    locked,     \* lock_view: run button and view popup are disabled
    doc,        \* app->doc is allocated
    views,      \* app->views, by what each entry destroys
    popup,      \* elements of app->vselect, "result" first
    rows,       \* rows of app->vscroll
    selected,   \* the element selected, the only row shown
    status,     \* the text of the status label
    fault       \* "none", or the assertion that failed

mainVars   == <<mrun, mstop>>
filterVars == <<frun, fstop, ftot, locked>>
viewVars   == <<doc, views, popup, rows, selected>>
vars       == <<life, mainVars, filterVars, viewVars, status, fault>>

RunStates == {"INPROGRESS", "COMPLETE", "CANCEL", "ENDED"}
ViewKinds == {"NULL", "table", "kind", "filter"}
Labels    == {"ready", "running", "stopping", "stopped", "completed", "unknown",
              "exceeded"}
MaxTotal  == 3 * ReadBuffer - 2
MaxViews  == MaxStale + 2

TypeOK ==
    /\ life \in {"open", "closing", "exited"}
    /\ mrun \in RunStates /\ frun \in RunStates
    /\ mstop \in BOOLEAN /\ fstop \in BOOLEAN
    /\ ftot \in 0..MaxTotal
    /\ locked \in BOOLEAN
    /\ doc \in BOOLEAN
    /\ views \in Seq(ViewKinds)
    /\ popup \in 1..3 /\ rows \in 1..3
    /\ selected \in 0..2
    /\ status \in Labels
    /\ fault \in {"none", "filter_running"}

Init ==
    /\ life = "open"
    /\ mrun = "ENDED" /\ mstop = FALSE
    /\ frun = "ENDED" /\ fstop = FALSE /\ ftot = 0
    /\ locked = FALSE
    /\ doc = FALSE
    /\ views = << >>
    /\ popup = 1 /\ rows = 1
    /\ selected = 0
    /\ status = "ready"
    /\ fault = "none"

-----------------------------------------------------------------------------
(* The main command.                                                       *)

\* The rows below "result" are the last views of app->views: one is popped
\* per popup element, so entries without a row stay behind.
Shown(i) == views[Len(views) - popup + 1 + i]

Showing(kind) == selected > 0 /\ Shown(selected) = kind

Teardown ==
    /\ selected' = 0
    /\ popup' = 1
    /\ rows' = rows - (popup - 1)
    /\ views' = SubSeq(views, 1, IF popup - 1 > Len(views) THEN 0
                                 ELSE Len(views) - (popup - 1))
    /\ doc' = FALSE

\* i_OnRun; with nothing before the cursor it stops after the teardown.
MainRun(command) ==
    /\ life = "open"
    /\ ~locked
    /\ mrun = "ENDED"
    /\ Teardown
    /\ status' = IF command THEN "running" ELSE "ready"
    /\ mrun' = IF command THEN "INPROGRESS" ELSE "ENDED"
    /\ UNCHANGED <<life, mstop, filterVars, fault>>

MainStop ==
    /\ life = "open"
    /\ ~locked
    /\ mrun # "ENDED"
    /\ mstop' = TRUE
    /\ status' = "stopping"
    /\ UNCHANGED <<life, mrun, filterVars, viewVars, fault>>

\* i_run_update when the output has ended, or a stop was asked for.
MainUpdate ==
    /\ life = "open"
    /\ mrun = "INPROGRESS"
    /\ mrun' = IF mstop THEN "CANCEL" ELSE "COMPLETE"
    /\ UNCHANGED <<life, mstop, filterVars, viewVars, status, fault>>

\* populate_views: what the JSON of the command says decides which views
\* there will be.  add_list_to_layout builds a table only if the first item
\* is a Pod and otherwise returns NULL, which is stored all the same.
NewViews(content) ==
    CASE content = "pods"  -> <<"table", "filter">>
      [] content = "list"  -> <<"NULL", "filter">>
      [] content = "other" -> <<"kind", "filter">>

NewRows_mut(content) == 2       \* the list view is assumed to exist

NewRows(content) == IF content = "list" THEN 1 ELSE 2

Populate(content) ==
    /\ views' = views \o NewViews(content)
    /\ popup' = popup + NewRows(content)
    /\ rows' = rows + NewRows(content)
    /\ doc' = TRUE
    /\ UNCHANGED selected

\* The bound on stale entries.
HasRoom(content) ==
    content = "list" =>
        Len(SelectSeq(views, LAMBDA v : v = "NULL")) < MaxStale

\* i_run_end.  Output that is too short, too long, not JSON or without a
\* kind gives no views.
MainEnd ==
    /\ life = "open"
    /\ mrun \in {"COMPLETE", "CANCEL"}
    /\ mrun' = "ENDED"
    /\ mstop' = FALSE
    /\ status' = IF mrun = "COMPLETE" THEN "completed" ELSE "stopped"
    /\ \/ UNCHANGED viewVars
       \/ /\ mrun = "COMPLETE"
          /\ \E content \in {"pods", "list", "other"} :
                HasRoom(content) /\ Populate(content)
    /\ UNCHANGED <<life, filterVars, fault>>

-----------------------------------------------------------------------------
(* The views.                                                              *)

PopupEnabled_mut == TRUE        \* lock_view leaves the popup alone

PopupEnabled == ~locked

\* i_OnPopupSelect
SelectView(i) ==
    /\ life = "open"
    /\ PopupEnabled
    /\ i < popup
    /\ selected' = i
    /\ UNCHANGED <<life, mainVars, filterVars, doc, views, popup, rows, status,
                   fault>>

\* onCol_add on a full table writes to the same label.
ColumnsExceeded ==
    /\ life = "open"
    /\ Showing("table")
    /\ status' = "exceeded"
    /\ UNCHANGED <<life, mainVars, filterVars, viewVars, fault>>

-----------------------------------------------------------------------------
(* The filter command (list.c).                                            *)

\* i_OnRun with an empty command, or with jsonpointer checked: a pointer or
\* an expression is evaluated in place.  Writing the JSON fails only without
\* memory (it would leave "running"), which is left out.
FilterEvaluate ==
    /\ life = "open"
    /\ Showing("filter")
    /\ frun = "ENDED"
    /\ ftot' = 0
    /\ status' \in {"ready", "completed", "stopped"}
    /\ UNCHANGED <<life, mainVars, frun, fstop, locked, viewVars, fault>>

Lock_mut == locked' = FALSE     \* lock_view(data->locker, TRUE) forgotten

Lock == locked' = TRUE

\* i_OnRun with an external command, whose pipes and fork succeed: bproc_exec
\* would return NULL, and the program end at the first write.
FilterRun ==
    /\ life = "open"
    /\ Showing("filter")
    /\ frun = "ENDED"
    /\ ftot' = 0
    /\ status' = "running"
    /\ Lock
    /\ frun' = "INPROGRESS"
    /\ UNCHANGED <<life, mainVars, fstop, viewVars, fault>>

FilterStop ==
    /\ life = "open"
    /\ Showing("filter")
    /\ frun # "ENDED"
    /\ fstop' = TRUE
    /\ status' = "stopping"
    /\ UNCHANGED <<life, mainVars, frun, ftot, locked, viewVars, fault>>

OverLimit(total) == total > ReadBuffer

\* i_run_update, reading n from the two streams together.
FilterRead(n) ==
    /\ life = "open"
    /\ frun = "INPROGRESS"
    /\ ~fstop
    /\ ftot' = ftot + n
    /\ fstop' = OverLimit(ftot')
    /\ UNCHANGED <<life, mainVars, frun, locked, viewVars, status, fault>>

\* i_run_update at the end of both streams.
FilterEof ==
    /\ life = "open"
    /\ frun = "INPROGRESS"
    /\ ~fstop
    /\ frun' = "COMPLETE"
    /\ UNCHANGED <<life, mainVars, fstop, ftot, locked, viewVars, status, fault>>

\* i_run_update with stop set.
FilterCancel ==
    /\ life = "open"
    /\ frun = "INPROGRESS"
    /\ fstop
    /\ frun' = "CANCEL"
    /\ UNCHANGED <<life, mainVars, fstop, ftot, locked, viewVars, status, fault>>

Unlock_mut == locked' = (frun = "CANCEL")   \* unlocked on completion only

Unlock == locked' = FALSE

\* i_run_end
FilterEnd ==
    /\ life = "open"
    /\ frun \in {"COMPLETE", "CANCEL"}
    /\ status' = IF frun = "COMPLETE" THEN "completed" ELSE "stopped"
    /\ frun' = "ENDED"
    /\ fstop' = FALSE
    /\ Unlock
    /\ UNCHANGED <<life, mainVars, ftot, viewVars, fault>>

-----------------------------------------------------------------------------
(* Closing the window.                                                     *)

\* i_OnClose: the main process, if any, is cancelled and closed.
Close ==
    /\ life = "open"
    /\ life' = "closing"
    /\ UNCHANGED <<mainVars, filterVars, viewVars, status, fault>>

\* i_destroy at the next tick: views are destroyed last to first, and
\* ft_destroy asserts that no filter process is left.
Destroy ==
    /\ life = "closing"
    /\ life' = "exited"
    /\ doc' = FALSE
    /\ views' = << >>
    /\ fault' = IF frun = "INPROGRESS" THEN "filter_running" ELSE fault
    /\ UNCHANGED <<mainVars, filterVars, popup, rows, selected, status>>

-----------------------------------------------------------------------------

Exited == life = "exited" /\ UNCHANGED vars

Next ==
    \/ \E command \in BOOLEAN : MainRun(command)
    \/ MainStop \/ MainUpdate \/ MainEnd
    \/ \E i \in 0..2 : SelectView(i)
    \/ ColumnsExceeded
    \/ FilterEvaluate \/ FilterRun \/ FilterStop
    \/ \E n \in 1..2 * (ReadBuffer - 1) : FilterRead(n)
    \/ FilterEof \/ FilterCancel \/ FilterEnd
    \/ Close \/ Destroy
    \/ Exited

Spec == Init /\ [][Next]_vars

\* The timer keeps the scheduler going.  Nothing is assumed of the user, nor
\* of a command before it is stopped.
FairSpec ==
    /\ Spec
    /\ WF_vars(mstop /\ MainUpdate)
    /\ WF_vars(MainEnd)
    /\ WF_vars(FilterCancel)
    /\ WF_vars(FilterEnd)
    /\ WF_vars(Destroy)

-----------------------------------------------------------------------------
(* Safety.                                                                 *)

\* While the filter's task is in the scheduler the filter data it points to is
\* alive, and so is the document it filters: no main command runs that would
\* free both.
FilterTaskHasData ==
    frun # "ENDED" =>
        /\ mrun = "ENDED"
        /\ life = "open" => doc /\ \E i \in 1..Len(views) : views[i] = "filter"

\* Every row but the first belongs to the view that built it: the teardown
\* destroys exactly the views whose rows it removes, even when the entries of
\* lists without a table pile up in app->views.  There is a document exactly
\* while views show it, and none while a command that will replace it runs.
RowsMatchViews ==
    life = "open" =>
        /\ rows = popup
        /\ popup - 1 <= Len(views)
        /\ (doc <=> popup > 1) /\ (mrun # "ENDED" => ~doc)
        /\ \A i \in 1..Len(views) :
              views[i] = "NULL" <=> i <= Len(views) - (popup - 1)

\* "running" and "stopping" are displayed exactly while something runs, in
\* spite of the three writers of the label.
LabelIsTrue ==
    status \in {"running", "stopping"} <=> mrun # "ENDED" \/ frun # "ENDED"

-----------------------------------------------------------------------------
(* Liveness.                                                               *)

\* A filter that exceeds the limit or is stopped gives the controls of the
\* main window back, and a stopped main command ends.
StopIsAnswered ==
    /\ fstop ~> ~locked \/ life # "open"
    /\ mstop ~> mrun = "ENDED" \/ life # "open"
=============================================================================
