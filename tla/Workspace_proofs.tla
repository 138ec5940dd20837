--------------------------- MODULE Workspace_proofs ---------------------------
(***************************************************************************)
(* lock_view is enough to keep the main run and the filter apart, and the  *)
(* three lists of the views stay aligned, for any size of the buffer and   *)
(* any number of entries that lists without a table leave behind.          *)
(*                                                                         *)
(* The argument: a filter is started from its view, so there is a          *)
(* document and no main command; while it runs the run button and the      *)
(* popup are locked, so its view stays the selected one.  HeldByFilter and *)
(* SelectedIsShown say that.                                               *)
(***************************************************************************)
EXTENDS Workspace, TLAPS

\* The controls are locked exactly while a filter runs, which is while the
\* view it was started from is shown.
HeldByFilter ==
    /\ locked <=> frun # "ENDED"
    /\ life = "open" /\ locked => Showing("filter")

SelectedIsShown == life = "open" => selected < popup

\* A filter over its limit has been asked to stop.
LimitStops == ftot > ReadBuffer /\ frun = "INPROGRESS" => fstop

IInv ==
    /\ TypeOK
    /\ HeldByFilter /\ SelectedIsShown /\ LimitStops
    /\ FilterTaskHasData /\ RowsMatchViews /\ LabelIsTrue

-----------------------------------------------------------------------------

LEMMA InitIInv == Init => IInv
<1> SUFFICES ASSUME Init PROVE IInv
  OBVIOUS
<1>1. TypeOK
  <2>1. ftot \in 0..MaxTotal
    BY BoundAssumption DEF Init, MaxTotal
  <2>2. views \in Seq(ViewKinds)
    BY DEF Init
  <2>3. popup \in 1..3 /\ rows \in 1..3 /\ selected \in 0..2
    BY DEF Init
  <2>4. mstop \in BOOLEAN /\ fstop \in BOOLEAN /\ locked \in BOOLEAN /\ doc \in BOOLEAN
    BY DEF Init
  <2>5. /\ life \in {"open", "closing", "exited"} /\ mrun \in RunStates
        /\ frun \in RunStates /\ status \in Labels /\ fault \in {"none", "filter_running"}
    BY DEF Init, RunStates, Labels
  <2> QED
    BY <2>1, <2>2, <2>3, <2>4, <2>5 DEF TypeOK
<1>2. HeldByFilter /\ SelectedIsShown /\ LimitStops
  BY DEF Init, HeldByFilter, SelectedIsShown, LimitStops
<1>3. FilterTaskHasData /\ RowsMatchViews /\ LabelIsTrue
  BY DEF Init, FilterTaskHasData, RowsMatchViews, LabelIsTrue
<1> QED
  BY <1>1, <1>2, <1>3 DEF IInv

\* A view can be shown only when there is a document, and then no main command
\* runs.
LEMMA ShownMeansIdle ==
    ASSUME IInv, life = "open", selected > 0
    PROVE  doc /\ mrun = "ENDED" /\ popup > 1
<1>1. selected \in 0..2 /\ popup \in 1..3 /\ selected < popup
  BY DEF IInv, TypeOK, SelectedIsShown
<1> QED
  BY <1>1 DEF IInv, RowsMatchViews

\* The view shown is one of app->views.
LEMMA ShownIsView ==
    ASSUME IInv, life = "open", selected > 0
    PROVE  \E i \in 1..Len(views) : views[i] = Shown(selected)
<1>1. selected \in 1..2 /\ popup \in 1..3 /\ selected < popup
      /\ popup - 1 <= Len(views) /\ views \in Seq(ViewKinds)
  BY DEF IInv, TypeOK, SelectedIsShown, RowsMatchViews
<1>2. Len(views) - popup + 1 + selected \in 1..Len(views)
  BY <1>1
<1> QED
  BY <1>2 DEF Shown

\* A step that leaves the views alone.
LEMMA KeepsViews ==
    ASSUME IInv, UNCHANGED <<life, mrun, viewVars>>
    PROVE  SelectedIsShown' /\ RowsMatchViews' /\ (Showing("filter")' <=> Showing("filter"))
  BY DEF viewVars, IInv, SelectedIsShown, RowsMatchViews, Showing, Shown

-----------------------------------------------------------------------------
(* The main command.                                                       *)

\* The teardown leaves the entries that have no row.
LEMMA TeardownStep ==
    ASSUME IInv, life = "open", Teardown, UNCHANGED life
    PROVE  /\ views' \in Seq(ViewKinds) /\ popup' = 1 /\ rows' = 1 /\ selected' = 0
           /\ doc' = FALSE
           /\ \A i \in 1..Len(views') : views'[i] = "NULL"
<1> DEFINE stay == Len(views) - (popup - 1)
<1>1. /\ views \in Seq(ViewKinds) /\ popup \in 1..3 /\ rows = popup /\ popup - 1 <= Len(views)
      /\ \A i \in 1..Len(views) : views[i] = "NULL" <=> i <= stay
  BY DEF IInv, TypeOK, RowsMatchViews
<1>2. stay \in 0..Len(views)
  BY <1>1
<1>3. views' = SubSeq(views, 1, stay)
  BY <1>1 DEF Teardown
<1>4. popup' = 1 /\ rows' = 1 /\ selected' = 0 /\ doc' = FALSE
  BY <1>1 DEF Teardown
<1> HIDE DEF stay
<1>5. /\ views' \in Seq(ViewKinds) /\ Len(views') = stay
      /\ \A i \in 1..stay : views'[i] = views[i]
  BY <1>1, <1>2, <1>3
<1> QED
  BY <1>1, <1>2, <1>4, <1>5

LEMMA MainRunStep == ASSUME IInv, NEW command \in BOOLEAN, MainRun(command) PROVE IInv'
<1>1. /\ life = "open" /\ ~locked /\ mrun = "ENDED" /\ Teardown
      /\ status' = IF command THEN "running" ELSE "ready"
      /\ mrun' = IF command THEN "INPROGRESS" ELSE "ENDED"
      /\ UNCHANGED <<life, mstop, filterVars, fault>>
  BY DEF MainRun
<1>2. frun = "ENDED"
  BY <1>1 DEF IInv, HeldByFilter
<1>3. /\ views' \in Seq(ViewKinds) /\ popup' = 1 /\ rows' = 1 /\ selected' = 0
      /\ doc' = FALSE /\ \A i \in 1..Len(views') : views'[i] = "NULL"
  BY <1>1, TeardownStep
<1>4. TypeOK'
  <2>1. status' \in Labels /\ mrun' \in RunStates
    BY <1>1 DEF Labels, RunStates
  <2>2. popup' \in 1..3 /\ rows' \in 1..3 /\ selected' \in 0..2 /\ doc' \in BOOLEAN
    <3>1. popup' = 1 /\ rows' = 1 /\ selected' = 0 /\ doc' = FALSE
      BY <1>3
    <3>2. doc' \in BOOLEAN
      BY <3>1, Zenon
    <3>3. popup' \in 1..3 /\ rows' \in 1..3 /\ selected' \in 0..2
      BY <3>1
    <3> QED
      BY <3>2, <3>3
  <2> QED
    BY <1>1, <1>3, <2>1, <2>2 DEF IInv, TypeOK, filterVars
<1>5. HeldByFilter' /\ SelectedIsShown' /\ LimitStops'
  BY <1>1, <1>2, <1>3 DEF IInv, HeldByFilter, SelectedIsShown, LimitStops, filterVars
<1>6. FilterTaskHasData' /\ LabelIsTrue'
  BY <1>1, <1>2 DEF FilterTaskHasData, LabelIsTrue, filterVars
<1>7. RowsMatchViews'
  <2>1. Len(views') \in Nat
    BY <1>3
  <2> QED
    BY <1>3, <2>1 DEF RowsMatchViews
<1> QED
  BY <1>4, <1>5, <1>6, <1>7 DEF IInv

LEMMA MainStopStep == ASSUME IInv, MainStop PROVE IInv'
<1>1. /\ mrun # "ENDED" /\ mstop' = TRUE /\ status' = "stopping"
      /\ UNCHANGED <<life, mrun, filterVars, viewVars, fault>>
  BY DEF MainStop
<1>2. TypeOK'
  BY <1>1 DEF IInv, TypeOK, filterVars, viewVars, Labels
<1>3. SelectedIsShown' /\ RowsMatchViews' /\ HeldByFilter'
  BY <1>1, KeepsViews DEF IInv, HeldByFilter, filterVars
<1>4. LimitStops' /\ FilterTaskHasData' /\ LabelIsTrue'
  BY <1>1 DEF IInv, LimitStops, FilterTaskHasData, LabelIsTrue, filterVars, viewVars
<1> QED
  BY <1>2, <1>3, <1>4 DEF IInv

LEMMA MainUpdateStep == ASSUME IInv, MainUpdate PROVE IInv'
<1>1. /\ mrun = "INPROGRESS" /\ mrun' \in {"CANCEL", "COMPLETE"}
      /\ UNCHANGED <<life, mstop, filterVars, viewVars, status, fault>>
  BY DEF MainUpdate
<1>2. TypeOK'
  BY <1>1 DEF IInv, TypeOK, filterVars, viewVars, RunStates
<1>3. SelectedIsShown' /\ RowsMatchViews' /\ HeldByFilter'
  BY <1>1 DEF IInv, HeldByFilter, SelectedIsShown, RowsMatchViews, Showing, Shown,
              filterVars, viewVars
<1>4. LimitStops' /\ FilterTaskHasData' /\ LabelIsTrue'
  BY <1>1 DEF IInv, LimitStops, FilterTaskHasData, LabelIsTrue, filterVars, viewVars
<1> QED
  BY <1>2, <1>3, <1>4 DEF IInv

\* After entries without a row come a view, or NULL without a row, and a filter.
LEMMA Appended ==
    ASSUME NEW old \in Seq(ViewKinds), \A i \in 1..Len(old) : old[i] = "NULL",
           NEW first \in ViewKinds, NEW new, new = old \o <<first, "filter">>,
           NEW p, p = IF first = "NULL" THEN 2 ELSE 3
    PROVE  /\ new \in Seq(ViewKinds) /\ p - 1 <= Len(new)
           /\ \A i \in 1..Len(new) : new[i] = "NULL" <=> i <= Len(new) - (p - 1)
<1>1. "filter" \in ViewKinds
  BY DEF ViewKinds
<1>2. <<first, "filter">> \in Seq(ViewKinds)
  BY <1>1
<1>3. new \in Seq(ViewKinds) /\ Len(old) \in Nat
  BY <1>2
<1>4. /\ Len(new) = Len(old) + 2 /\ new[Len(old) + 1] = first
      /\ new[Len(old) + 2] = "filter" /\ \A i \in 1..Len(old) : new[i] = old[i]
  BY <1>2
<1>5. ASSUME NEW i \in 1..Len(new)
      PROVE  new[i] = "NULL" <=> i <= Len(new) - (p - 1)
  <2>1. CASE i \in 1..Len(old)
    BY <1>3, <1>4, <2>1
  <2>2. CASE i = Len(old) + 1
    BY <1>3, <1>4, <2>2
  <2>3. CASE i = Len(old) + 2
    BY <1>3, <1>4, <2>3
  <2> QED
    BY <1>3, <1>4, <2>1, <2>2, <2>3
<1> QED
  BY <1>3, <1>4, <1>5

\* populate_views adds rows for the views it adds, and none for the missing one.
LEMMA PopulateStep ==
    ASSUME IInv, life = "open", mrun # "ENDED", UNCHANGED life, mrun' = "ENDED",
           NEW content \in {"pods", "list", "other"}, Populate(content)
    PROVE  /\ RowsMatchViews' /\ SelectedIsShown'
           /\ views' \in Seq(ViewKinds) /\ popup' \in 1..3 /\ rows' \in 1..3
           /\ doc' = TRUE /\ selected' = selected
<1>1. /\ views \in Seq(ViewKinds) /\ popup = 1 /\ rows = 1 /\ selected = 0
      /\ \A i \in 1..Len(views) : views[i] = "NULL"
  <2>1. /\ views \in Seq(ViewKinds) /\ popup \in 1..3 /\ rows = popup /\ ~doc
        /\ (doc <=> popup > 1) /\ selected \in 0..2 /\ selected < popup
    BY DEF IInv, TypeOK, RowsMatchViews, SelectedIsShown
  <2>2. popup = 1 /\ Len(views) \in Nat /\ selected = 0
    BY <2>1
  <2>3. \A i \in 1..Len(views) : views[i] = "NULL"
    BY <2>2 DEF IInv, RowsMatchViews
  <2> QED
    BY <2>1, <2>2, <2>3
<1>2. PICK first \in ViewKinds :
        /\ NewViews(content) = <<first, "filter">>
        /\ first = "NULL" <=> content = "list"
  BY DEF NewViews, ViewKinds
<1>3. /\ views' = views \o <<first, "filter">>
      /\ popup' = IF first = "NULL" THEN 2 ELSE 3
      /\ rows' = popup' /\ doc' = TRUE /\ selected' = 0
  BY <1>1, <1>2 DEF Populate, NewRows
<1>4. popup' \in 1..3 /\ popup' > 1
  BY <1>3
<1> DEFINE Fits(new, p) ==
             /\ new \in Seq(ViewKinds) /\ p - 1 <= Len(new)
             /\ \A i \in 1..Len(new) : new[i] = "NULL" <=> i <= Len(new) - (p - 1)
<1>a. \A new, p : new = views \o <<first, "filter">> /\ p = (IF first = "NULL" THEN 2 ELSE 3)
                    => Fits(new, p)
  BY <1>1, Appended
<1> HIDE DEF Fits
<1>b. Fits(views', popup')
  BY <1>3, <1>a, Zenon
<1> USE DEF Fits
<1>5. /\ views' \in Seq(ViewKinds) /\ popup' - 1 <= Len(views')
      /\ \A i \in 1..Len(views') : views'[i] = "NULL" <=> i <= Len(views') - (popup' - 1)
  BY <1>b, Zenon
<1> HIDE DEF Fits
<1>6. RowsMatchViews'
  BY <1>3, <1>4, <1>5, Zenon DEF RowsMatchViews
<1> QED
  BY <1>1, <1>3, <1>4, <1>5, <1>6 DEF SelectedIsShown

LEMMA MainEndStep == ASSUME IInv, MainEnd PROVE IInv'
<1>1. /\ life = "open" /\ mrun \in {"COMPLETE", "CANCEL"} /\ mrun' = "ENDED"
      /\ mstop' = FALSE /\ status' \in {"completed", "stopped"}
      /\ UNCHANGED <<life, filterVars, fault>>
  BY DEF MainEnd
<1>2. frun = "ENDED" /\ ~locked
  BY <1>1 DEF IInv, FilterTaskHasData, HeldByFilter
<1>3. /\ RowsMatchViews' /\ SelectedIsShown'
      /\ views' \in Seq(ViewKinds) /\ popup' \in 1..3 /\ rows' \in 1..3
      /\ doc' \in BOOLEAN /\ selected' = selected
  <2>1. CASE UNCHANGED viewVars
    BY <1>1, <2>1 DEF IInv, TypeOK, RowsMatchViews, SelectedIsShown, viewVars
  <2>2. ASSUME NEW content \in {"pods", "list", "other"}, Populate(content)
        PROVE  /\ RowsMatchViews' /\ SelectedIsShown'
               /\ views' \in Seq(ViewKinds) /\ popup' \in 1..3 /\ rows' \in 1..3
               /\ doc' \in BOOLEAN /\ selected' = selected
    BY <1>1, <2>2, PopulateStep
  <2> QED
    BY <2>1, <2>2 DEF MainEnd
<1>4. TypeOK'
  BY <1>1, <1>3 DEF IInv, TypeOK, filterVars, Labels, RunStates
<1>5. HeldByFilter' /\ LimitStops' /\ FilterTaskHasData' /\ LabelIsTrue'
  BY <1>1, <1>2 DEF IInv, HeldByFilter, LimitStops, FilterTaskHasData, LabelIsTrue, filterVars
<1> QED
  BY <1>3, <1>4, <1>5 DEF IInv

-----------------------------------------------------------------------------
(* The views and the filter.                                               *)

LEMMA SelectViewStep == ASSUME IInv, NEW i \in 0..2, SelectView(i) PROVE IInv'
<1>1. /\ life = "open" /\ ~locked /\ i < popup /\ selected' = i
      /\ UNCHANGED <<life, mainVars, filterVars, doc, views, popup, rows, status, fault>>
  BY DEF SelectView, PopupEnabled
<1>2. TypeOK'
  BY <1>1 DEF IInv, TypeOK, mainVars, filterVars
<1>3. HeldByFilter' /\ SelectedIsShown' /\ LimitStops'
  BY <1>1 DEF IInv, HeldByFilter, SelectedIsShown, LimitStops, filterVars
<1>4. FilterTaskHasData' /\ RowsMatchViews' /\ LabelIsTrue'
  BY <1>1 DEF IInv, FilterTaskHasData, RowsMatchViews, LabelIsTrue, mainVars, filterVars
<1> QED
  BY <1>2, <1>3, <1>4 DEF IInv

\* A table is not shown while a filter runs, and no view while the main
\* command does.
LEMMA ColumnsExceededStep == ASSUME IInv, ColumnsExceeded PROVE IInv'
<1>1. /\ life = "open" /\ selected > 0 /\ Shown(selected) = "table"
      /\ status' = "exceeded"
      /\ UNCHANGED <<life, mainVars, filterVars, viewVars, fault>>
  BY DEF ColumnsExceeded, Showing
<1>2. mrun = "ENDED" /\ frun = "ENDED"
  BY <1>1, ShownMeansIdle DEF IInv, HeldByFilter, Showing
<1>3. TypeOK'
  BY <1>1 DEF IInv, TypeOK, mainVars, filterVars, viewVars, Labels
<1>4. SelectedIsShown' /\ RowsMatchViews' /\ HeldByFilter'
  BY <1>1, KeepsViews DEF IInv, HeldByFilter, mainVars, filterVars
<1>5. LimitStops' /\ FilterTaskHasData' /\ LabelIsTrue'
  BY <1>1, <1>2 DEF IInv, LimitStops, FilterTaskHasData, LabelIsTrue, mainVars, filterVars
<1> QED
  BY <1>3, <1>4, <1>5 DEF IInv

LEMMA FilterEvaluateStep == ASSUME IInv, FilterEvaluate PROVE IInv'
<1>1. /\ life = "open" /\ selected > 0 /\ frun = "ENDED" /\ ftot' = 0
      /\ status' \in {"ready", "completed", "stopped"}
      /\ UNCHANGED <<life, mainVars, frun, fstop, locked, viewVars, fault>>
  BY DEF FilterEvaluate, Showing
<1>2. mrun = "ENDED"
  BY <1>1, ShownMeansIdle
<1>3. TypeOK'
  <2>1. ftot' \in 0..MaxTotal
    BY <1>1, BoundAssumption DEF MaxTotal
  <2> QED
    BY <1>1, <2>1 DEF IInv, TypeOK, mainVars, viewVars, Labels
<1>4. SelectedIsShown' /\ RowsMatchViews' /\ HeldByFilter'
  BY <1>1, KeepsViews DEF IInv, HeldByFilter, mainVars
<1>5. LimitStops' /\ FilterTaskHasData' /\ LabelIsTrue'
  BY <1>1, <1>2 DEF IInv, LimitStops, FilterTaskHasData, LabelIsTrue, mainVars
<1> QED
  BY <1>3, <1>4, <1>5 DEF IInv

LEMMA FilterRunStep == ASSUME IInv, FilterRun PROVE IInv'
<1>1. /\ life = "open" /\ Showing("filter") /\ selected > 0 /\ ftot' = 0
      /\ status' = "running" /\ locked' = TRUE /\ frun' = "INPROGRESS"
      /\ UNCHANGED <<life, mainVars, fstop, viewVars, fault>>
  BY DEF FilterRun, Lock, Showing
<1>2. mrun = "ENDED" /\ doc /\ \E i \in 1..Len(views) : views[i] = "filter"
  BY <1>1, ShownMeansIdle, ShownIsView DEF Showing
<1>3. TypeOK'
  <2>1. ftot' \in 0..MaxTotal /\ ftot' = 0 /\ ReadBuffer \in Nat
    BY <1>1, BoundAssumption DEF MaxTotal
  <2> QED
    BY <1>1, <2>1 DEF IInv, TypeOK, mainVars, viewVars, Labels, RunStates
<1>4. SelectedIsShown' /\ RowsMatchViews' /\ HeldByFilter'
  BY <1>1, KeepsViews DEF IInv, HeldByFilter, mainVars
<1>5. LimitStops'
  BY <1>1, BoundAssumption DEF LimitStops
<1>6. FilterTaskHasData' /\ LabelIsTrue'
  BY <1>1, <1>2 DEF FilterTaskHasData, LabelIsTrue, mainVars, viewVars
<1> QED
  BY <1>3, <1>4, <1>5, <1>6 DEF IInv

\* A step of a filter that goes on.
LEMMA FilterGoesOn ==
    ASSUME IInv, UNCHANGED <<life, mainVars, locked, viewVars, fault>>,
           frun # "ENDED", frun' \in RunStates \ {"ENDED"},
           status' = status \/ status' = "stopping",
           fstop' \in BOOLEAN, ftot' \in 0..MaxTotal, LimitStops'
    PROVE  IInv'
<1>1. TypeOK'
  BY DEF IInv, TypeOK, mainVars, viewVars, Labels
<1>2. SelectedIsShown' /\ RowsMatchViews' /\ HeldByFilter'
  BY KeepsViews DEF IInv, HeldByFilter, mainVars
<1>3. FilterTaskHasData' /\ LabelIsTrue'
  BY DEF IInv, FilterTaskHasData, LabelIsTrue, mainVars, viewVars
<1> QED
  BY <1>1, <1>2, <1>3 DEF IInv

LEMMA FilterStepsGoOn ==
    ASSUME IInv, \/ FilterStop \/ FilterEof \/ FilterCancel
                 \/ \E n \in 1..2 * (ReadBuffer - 1) : FilterRead(n)
    PROVE  IInv'
<1>0. TypeOK /\ ftot \in 0..MaxTotal /\ fstop \in BOOLEAN /\ frun \in RunStates
  BY DEF IInv, TypeOK
<1>1. CASE FilterStop
  <2>1. LimitStops'
    BY <1>1 DEF FilterStop, LimitStops
  <2> QED
    BY <1>0, <1>1, <2>1, FilterGoesOn DEF FilterStop
<1>2. CASE FilterEof
  <2>1. LimitStops' /\ frun' \in RunStates \ {"ENDED"} /\ frun # "ENDED"
    BY <1>2 DEF FilterEof, LimitStops, RunStates
  <2> QED
    BY <1>0, <1>2, <2>1, FilterGoesOn DEF FilterEof
<1>3. CASE FilterCancel
  <2>1. LimitStops' /\ frun' \in RunStates \ {"ENDED"} /\ frun # "ENDED"
    BY <1>3 DEF FilterCancel, LimitStops, RunStates
  <2> QED
    BY <1>0, <1>3, <2>1, FilterGoesOn DEF FilterCancel
<1>4. ASSUME NEW n \in 1..2 * (ReadBuffer - 1), FilterRead(n) PROVE IInv'
  <2>1. /\ frun = "INPROGRESS" /\ ~fstop /\ ftot' = ftot + n
        /\ fstop' = (ftot' > ReadBuffer)
        /\ UNCHANGED <<life, mainVars, frun, locked, viewVars, status, fault>>
    BY <1>4 DEF FilterRead, OverLimit
  <2>2. ~(ftot > ReadBuffer)
    BY <2>1 DEF IInv, LimitStops
  <2>3. ftot' \in 0..MaxTotal
    BY <1>0, <2>1, <2>2, BoundAssumption DEF MaxTotal
  <2>4. LimitStops' /\ fstop' \in BOOLEAN /\ frun' \in RunStates \ {"ENDED"}
    <3>1. fstop' \in BOOLEAN
      <4>1. OverLimit(ftot') \in BOOLEAN
        BY DEF OverLimit
      <4>2. fstop' = OverLimit(ftot')
        BY <1>4, Zenon DEF FilterRead
      <4> QED
        BY <4>1, <4>2, Zenon
    <3>2. LimitStops'
      BY <2>1, Zenon DEF LimitStops
    <3>3. frun' \in RunStates \ {"ENDED"}
      BY <2>1 DEF RunStates
    <3> QED
      BY <3>1, <3>2, <3>3
  <2> QED
    BY <2>1, <2>3, <2>4, FilterGoesOn
<1> QED
  BY <1>1, <1>2, <1>3, <1>4

LEMMA FilterEndStep == ASSUME IInv, FilterEnd PROVE IInv'
<1>1. /\ life = "open" /\ frun # "ENDED" /\ status' \in {"completed", "stopped"}
      /\ frun' = "ENDED" /\ fstop' = FALSE /\ locked' = FALSE
      /\ UNCHANGED <<life, mainVars, ftot, viewVars, fault>>
  BY DEF FilterEnd, Unlock
<1>2. mrun = "ENDED"
  BY <1>1 DEF IInv, FilterTaskHasData
<1>3. TypeOK'
  BY <1>1 DEF IInv, TypeOK, mainVars, viewVars, Labels, RunStates
<1>4. SelectedIsShown' /\ RowsMatchViews' /\ HeldByFilter'
  BY <1>1, KeepsViews DEF IInv, HeldByFilter, mainVars
<1>5. LimitStops' /\ FilterTaskHasData' /\ LabelIsTrue'
  BY <1>1, <1>2 DEF LimitStops, FilterTaskHasData, LabelIsTrue, mainVars
<1> QED
  BY <1>3, <1>4, <1>5 DEF IInv

-----------------------------------------------------------------------------

\* Once the window is closed only the label and the two run states matter.
LEMMA ClosedStep == ASSUME IInv, Close \/ Destroy PROVE IInv'
<1>1. /\ life' \in {"closing", "exited"}
      /\ UNCHANGED <<mainVars, filterVars, popup, rows, selected, status>>
  BY DEF Close, Destroy, viewVars
<1>2. TypeOK'
  <2>1. doc' \in BOOLEAN /\ views' \in Seq(ViewKinds) /\ fault' \in {"none", "filter_running"}
    <3>1. doc \in BOOLEAN /\ views \in Seq(ViewKinds) /\ fault \in {"none", "filter_running"}
      BY DEF IInv, TypeOK
    <3>2. CASE Close
      BY <3>1, <3>2 DEF Close, viewVars
    <3>3. CASE Destroy
      <4>1. doc' = FALSE /\ views' = << >>
            /\ fault' = IF frun = "INPROGRESS" THEN "filter_running" ELSE fault
        BY <3>3 DEF Destroy
      <4>2. doc' \in BOOLEAN
        BY <4>1, Zenon
      <4>3. views' \in Seq(ViewKinds)
        BY <4>1
      <4>4. fault' \in {"none", "filter_running"}
        BY <3>1, <4>1
      <4> QED
        BY <4>2, <4>3, <4>4
    <3> QED
      BY <3>2, <3>3
  <2> QED
    BY <1>1, <2>1 DEF IInv, TypeOK, mainVars, filterVars
<1>3. SelectedIsShown' /\ RowsMatchViews' /\ HeldByFilter'
  BY <1>1 DEF IInv, SelectedIsShown, RowsMatchViews, HeldByFilter, filterVars
<1>4. LimitStops' /\ FilterTaskHasData' /\ LabelIsTrue'
  BY <1>1 DEF IInv, LimitStops, FilterTaskHasData, LabelIsTrue, mainVars, filterVars
<1> QED
  BY <1>2, <1>3, <1>4 DEF IInv

LEMMA NextIInv == IInv /\ [Next]_vars => IInv'
<1> SUFFICES ASSUME IInv, [Next]_vars PROVE IInv'
  OBVIOUS
<1>1. CASE UNCHANGED vars
  <2>1. TypeOK' /\ LimitStops' /\ FilterTaskHasData' /\ LabelIsTrue'
    BY <1>1 DEF vars, mainVars, filterVars, viewVars, IInv, TypeOK, LimitStops,
                FilterTaskHasData, LabelIsTrue
  <2>2. SelectedIsShown' /\ RowsMatchViews' /\ HeldByFilter'
    BY <1>1, KeepsViews DEF vars, mainVars, filterVars, IInv, HeldByFilter
  <2> QED
    BY <2>1, <2>2 DEF IInv
<1>2. CASE Next
  BY <1>1, <1>2, MainRunStep, MainStopStep, MainUpdateStep, MainEndStep, SelectViewStep,
     ColumnsExceededStep, FilterEvaluateStep, FilterRunStep, FilterStepsGoOn,
     FilterEndStep, ClosedStep, Zenon DEF Next, Exited
<1> QED
  BY <1>1, <1>2

-----------------------------------------------------------------------------

\* Type correctness; a filter reads at most two reads more than its limit.
THEOREM TypeCorrect == Spec => []TypeOK
<1>1. IInv => TypeOK
  BY DEF IInv
<1> QED
  BY <1>1, InitIInv, NextIInv, PTL DEF Spec

\* No main command runs beside a filter, whose document and view stay.
THEOREM FilterTaskHasDataTheorem == Spec => []FilterTaskHasData
<1>1. IInv => FilterTaskHasData
  BY DEF IInv
<1> QED
  BY <1>1, InitIInv, NextIInv, PTL DEF Spec

\* Views, rows and popup agree, however many lists without a table came.
THEOREM RowsMatchViewsTheorem == Spec => []RowsMatchViews
<1>1. IInv => RowsMatchViews
  BY DEF IInv
<1> QED
  BY <1>1, InitIInv, NextIInv, PTL DEF Spec

\* The label never lies about a running command.
THEOREM LabelIsTrueTheorem == Spec => []LabelIsTrue
<1>1. IInv => LabelIsTrue
  BY DEF IInv
<1> QED
  BY <1>1, InitIInv, NextIInv, PTL DEF Spec
=============================================================================
