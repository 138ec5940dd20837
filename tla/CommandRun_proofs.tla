------------------------- MODULE CommandRun_proofs -------------------------
(***************************************************************************)
(* Proofs about CommandRun, for every number of chunks and every choice of *)
(* its switches.                                                           *)
(***************************************************************************)
EXTENDS CommandRun, TLAPS

\* Where the GUI thread is tells what it has done to the process.
ProcInv ==
    /\ gui \in {"waitpid", "close", "free", "null"} =>
          ~terminate /\ runState = "INPROGRESS"
    /\ gui = "exited" => terminate
    /\ proc = "live" <=>
          /\ runState = "INPROGRESS"
          /\ ~terminate
          /\ gui # "null"
          /\ fault # "exec_null"
    /\ proc = "freed" <=> gui = "null"
    /\ pipesOpen <=> proc = "live" /\ gui # "free"

\* Where the task thread is tells the state of the task, and it is past its
\* loop only once the process was closed.
TaskInv ==
    /\ task = "none" => bg = "none"
    /\ task = "WAITING" => bg \in {"none", "created"}
    /\ task = "RUNNING" => bg \in {"assert", "deref", "while", "poll",
                                   "sleep", "finish"}
    /\ task = "FINISH" => bg = "done"
    /\ bg \in {"finish", "done"} => ~pipesOpen
    /\ TaskFollowsRun

\* What the controls guard and what i_run_end resets.
ResetInv ==
    /\ fault # "dict_null"
    /\ controls <=> runState = "ENDED"
    /\ DictBelongsToRun
    /\ NoStaleStop

\* What is known of the output when the GUI thread decides how a run ended.
OutputInv ==
    /\ \A s \in Streams : shown[s] <= written[s]
    /\ gui = "waitpid" => cont # "COMPLETE"
    /\ runState = "COMPLETE" => shown = written /\ held = {}
    /\ gui \in {"close", "free", "null"} /\ cont = "COMPLETE" =>
          shown = written /\ held = {}

\* What the status label says.
LabelInv ==
    /\ runState = "ENDED" => status \in {"ready", "completed", "stopped"}
    /\ runState # "ENDED" => status = IF stop THEN "stopping" ELSE "running"
    /\ gui \in {"waitpid", "close", "free", "null"} /\ cont = "CANCEL" => stop
    /\ runState = "CANCEL" => stop

IInv == TypeOK /\ ProcInv /\ TaskInv /\ ResetInv /\ OutputInv /\ LabelInv

\* Every step keeps every variable in its range.
LEMMA TypeStep ==
    ASSUME TypeOK, [Next]_vars PROVE TypeOK'
<1> USE DEF TypeOK, vars, appVars, guiVars, taskVars, childVars
<1>nothing. Nothing \in Counts
  BY BoundAssumption DEF Nothing, Counts
<1>cancel. ASSUME NEW next \in {"COMPLETE", "CANCEL", "quit"}, Cancel(next)
           PROVE  /\ cont' \in {"COMPLETE", "CANCEL", "quit"}
                  /\ gui' \in GuiPoints
                  /\ child' \in ChildStates
                  /\ held' \subseteq Streams
                  /\ pipesOpen' \in BOOLEAN
                  /\ written' \in Counts
  BY <1>cancel DEF Cancel, GuiPoints, ChildStates
<1>1. CASE OnRunNothing
  BY <1>1, <1>nothing DEF OnRunNothing, ClearOutput
<1>2. CASE OnRunExec
  BY <1>2, <1>nothing DEF OnRunExec, ClearOutput, RunStates, ChildStates
<1>3. CASE OnRunExecFails
  <2>1. runState' \in RunStates /\ fault' \in Faults
    BY <1>3 DEF OnRunExecFails, RunStates, Faults
  <2> QED
    BY <1>3, <2>1, <1>nothing DEF OnRunExecFails, ClearOutput
<1>4. CASE OnStop
  BY <1>4 DEF OnStop
<1>5. CASE OnReplace
  BY <1>5 DEF OnReplace
<1>6. CASE OnClose
  <2>1. CASE proc = "NULL"
    BY <1>6, <2>1 DEF OnClose
  <2>2. CASE proc # "NULL"
    BY <1>6, <2>2, <1>cancel DEF OnClose
  <2> QED
    BY <2>1, <2>2
<1>7. CASE WaitPid
  BY <1>7 DEF WaitPid, GuiPoints, ChildStates
<1>8. CASE ClosePipes
  <2>1. child' \in ChildStates
    BY <1>8 DEF ClosePipes, ChildStates
  <2>2. gui' \in GuiPoints
    BY <1>8 DEF ClosePipes, GuiPoints
  <2>3. pipesOpen' = FALSE
    BY <1>8 DEF ClosePipes
  <2>4. pipesOpen' \in BOOLEAN
    BY <2>3
  <2>5. UNCHANGED <<appVars, cont, terminate, taskVars, held, written, fault>>
    BY <1>8 DEF ClosePipes
  <2> QED
    BY <2>1, <2>2, <2>4, <2>5
<1>9. CASE FreeProc
  BY <1>9 DEF FreeProc, GuiPoints
<1>10. CASE NullProc
  BY <1>10 DEF NullProc, GuiPoints, RunStates
<1>11. CASE Terminate
  BY <1>11 DEF Terminate, GuiPoints, Faults
<1>12. CASE TickStart
  BY <1>12 DEF TickStart, BgPoints, Faults
<1>13. CASE UpdateCancel
  BY <1>13, <1>cancel DEF UpdateCancel
<1>14. CASE UpdateRead
  <2>1. shown' \in Counts
    BY <1>14, BoundAssumption DEF UpdateRead, Counts, Pending
  <2>2. gui' \in GuiPoints /\ cont' \in {"COMPLETE", "CANCEL", "quit"}
    BY <1>14 DEF UpdateRead, GuiPoints
  <2> QED
    BY <1>14, <2>1, <2>2 DEF UpdateRead
<1>15. CASE TickEnd
  BY <1>15 DEF TickEnd, EndReset, Verdict, RunStates, Faults, BgPoints
<1>16. CASE BgDispatch
  BY <1>16 DEF BgDispatch, BgPoints
<1>17. CASE BgAssert
  BY <1>17 DEF BgAssert, BgStep, BgPoints, Faults
<1>18. CASE BgDeref
  BY <1>18 DEF BgDeref, BgStep, BgPoints, Faults
<1>19. CASE BgWhile
  BY <1>19 DEF BgWhile, BgStep, BgPoints
<1>20. CASE BgPoll
  BY <1>20 DEF BgPoll, BgStep, BgPoints
<1>21. CASE BgSleep
  BY <1>21 DEF BgSleep, BgStep, BgPoints
<1>22. CASE BgFinish
  BY <1>22 DEF BgFinish, BgPoints
<1>23. CASE ChildSetsid
  BY <1>23 DEF ChildSetsid, ChildStates
<1>24. CASE ChildExit
  BY <1>24 DEF ChildExit, ChildStates
<1>25. ASSUME NEW s \in Streams, ChildWrite(s) PROVE TypeOK'
  <2>1. written' \in Counts
    BY <1>25, BoundAssumption DEF ChildWrite, Counts
  <2> QED
    BY <1>25, <2>1 DEF ChildWrite
<1>26. ASSUME NEW s \in Streams, ChildCloseStream(s) PROVE TypeOK'
  BY <1>26 DEF ChildCloseStream
<1>27. CASE Over \/ UNCHANGED vars
  BY <1>27 DEF Over
<1> QED
  BY <1>1, <1>2, <1>3, <1>4, <1>5, <1>6, <1>7, <1>8, <1>9, <1>10, <1>11, <1>12, <1>13, <1>14, <1>15, <1>16, <1>17, <1>18, <1>19, <1>20, <1>21, <1>22, <1>23, <1>24, <1>25, <1>26, <1>27
     DEF Next, User, GuiWork, Bg, Child

\* app->proc is live exactly while the GUI thread may use it.  Needs only where
\* the GUI thread is: the task thread never writes what ProcInv speaks of.
LEMMA ProcStep ==
    ASSUME TypeOK, ProcInv, TaskInv, [Next]_vars PROVE ProcInv'
<1> USE DEF TypeOK, RunStates, ChildStates, GuiPoints, BgPoints, Faults, ProcInv, Up, vars, appVars, guiVars, taskVars, childVars
<1>1. CASE OnRunNothing
  BY <1>1 DEF OnRunNothing, Idle, ClearOutput, Nothing, Counts, Streams
<1>2. CASE OnRunExec
  BY <1>2 DEF OnRunExec, Idle, ClearOutput, Nothing, Counts, Streams
<1>3. CASE OnRunExecFails
  BY <1>3 DEF OnRunExecFails, Idle, ClearOutput, Nothing, Counts, Streams
<1>4. CASE OnStop
  BY <1>4 DEF OnStop, Idle
<1>5. CASE OnReplace
  BY <1>5 DEF OnReplace, Idle, ReplaceEnabled
<1>6. CASE OnClose
  BY <1>6 DEF OnClose, Idle, Cancel
<1>7. CASE WaitPid
  BY <1>7 DEF WaitPid
<1>8. CASE ClosePipes
  BY <1>8 DEF ClosePipes
<1>9. CASE FreeProc
  BY <1>9 DEF FreeProc
<1>10. CASE NullProc
  BY <1>10 DEF NullProc
<1>11. CASE Terminate
  BY <1>11 DEF Terminate
<1>12. CASE TickStart
  BY <1>12 DEF TickStart, Tick, Idle
<1>13. CASE UpdateCancel
  BY <1>13 DEF UpdateCancel, Tick, Idle, Cancel
<1>14. CASE UpdateRead
  BY <1>14 DEF UpdateRead, Tick, Idle, Pending, AllEof, AtEof, Counts, Streams
<1>15. CASE TickEnd
  BY <1>15 DEF TickEnd, Tick, Idle, EndReset, Verdict
<1>16. CASE BgDispatch
  BY <1>16 DEF BgDispatch
<1>17. CASE BgAssert
  BY <1>17 DEF BgAssert, BgStep
<1>18. CASE BgDeref
  BY <1>18 DEF BgDeref, BgStep
<1>19. CASE BgWhile
  BY <1>19 DEF BgWhile, BgStep
<1>20. CASE BgPoll
  BY <1>20 DEF BgPoll, BgStep
<1>21. CASE BgSleep
  BY <1>21 DEF BgSleep, BgStep
<1>22. CASE BgFinish
  BY <1>22 DEF BgFinish
<1>23. CASE ChildSetsid
  BY <1>23 DEF ChildSetsid
<1>24. CASE ChildExit
  BY <1>24 DEF ChildExit
<1>25. ASSUME NEW s \in Streams, ChildWrite(s) PROVE ProcInv'
  BY <1>25 DEF ChildWrite, Counts, Streams
<1>26. ASSUME NEW s \in Streams, ChildCloseStream(s) PROVE ProcInv'
  BY <1>26 DEF ChildCloseStream
<1>27. CASE Over \/ UNCHANGED vars
  BY <1>27 DEF Over
<1> QED
  BY <1>1, <1>2, <1>3, <1>4, <1>5, <1>6, <1>7, <1>8, <1>9, <1>10, <1>11, <1>12, <1>13, <1>14, <1>15, <1>16, <1>17, <1>18, <1>19, <1>20, <1>21, <1>22, <1>23, <1>24, <1>25, <1>26, <1>27
     DEF Next, User, GuiWork, Bg, Child

\* The task thread leaves its loop only after the pipes were closed.
LEMMA TaskStep ==
    ASSUME TypeOK, ProcInv, TaskInv, [Next]_vars PROVE TaskInv'
<1> USE DEF TypeOK, RunStates, ChildStates, GuiPoints, BgPoints, Faults, TaskInv, TaskFollowsRun, ProcInv, Up, vars, appVars, guiVars, taskVars, childVars
<1>1. CASE OnRunNothing
  BY <1>1 DEF OnRunNothing, Idle, ClearOutput, Nothing, Counts, Streams
<1>2. CASE OnRunExec
  BY <1>2 DEF OnRunExec, Idle, ClearOutput, Nothing, Counts, Streams
<1>3. CASE OnRunExecFails
  BY <1>3 DEF OnRunExecFails, Idle, ClearOutput, Nothing, Counts, Streams
<1>4. CASE OnStop
  BY <1>4 DEF OnStop, Idle
<1>5. CASE OnReplace
  BY <1>5 DEF OnReplace, Idle, ReplaceEnabled
<1>6. CASE OnClose
  BY <1>6 DEF OnClose, Idle, Cancel
<1>7. CASE WaitPid
  BY <1>7 DEF WaitPid
<1>8. CASE ClosePipes
  BY <1>8 DEF ClosePipes
<1>9. CASE FreeProc
  BY <1>9 DEF FreeProc
<1>10. CASE NullProc
  BY <1>10 DEF NullProc
<1>11. CASE Terminate
  BY <1>11 DEF Terminate
<1>12. CASE TickStart
  BY <1>12 DEF TickStart, Tick, Idle
<1>13. CASE UpdateCancel
  BY <1>13 DEF UpdateCancel, Tick, Idle, Cancel
<1>14. CASE UpdateRead
  BY <1>14 DEF UpdateRead, Tick, Idle, Pending, AllEof, AtEof, Counts, Streams
<1>15. CASE TickEnd
  BY <1>15 DEF TickEnd, Tick, Idle, EndReset, Verdict
<1>16. CASE BgDispatch
  BY <1>16 DEF BgDispatch
<1>17. CASE BgAssert
  BY <1>17 DEF BgAssert, BgStep
<1>18. CASE BgDeref
  BY <1>18 DEF BgDeref, BgStep
<1>19. CASE BgWhile
  BY <1>19 DEF BgWhile, BgStep
<1>20. CASE BgPoll
  BY <1>20 DEF BgPoll, BgStep
<1>21. CASE BgSleep
  BY <1>21 DEF BgSleep, BgStep
<1>22. CASE BgFinish
  BY <1>22 DEF BgFinish
<1>23. CASE ChildSetsid
  BY <1>23 DEF ChildSetsid
<1>24. CASE ChildExit
  BY <1>24 DEF ChildExit
<1>25. ASSUME NEW s \in Streams, ChildWrite(s) PROVE TaskInv'
  BY <1>25 DEF ChildWrite, Counts, Streams
<1>26. ASSUME NEW s \in Streams, ChildCloseStream(s) PROVE TaskInv'
  BY <1>26 DEF ChildCloseStream
<1>27. CASE Over \/ UNCHANGED vars
  BY <1>27 DEF Over
<1> QED
  BY <1>1, <1>2, <1>3, <1>4, <1>5, <1>6, <1>7, <1>8, <1>9, <1>10, <1>11, <1>12, <1>13, <1>14, <1>15, <1>16, <1>17, <1>18, <1>19, <1>20, <1>21, <1>22, <1>23, <1>24, <1>25, <1>26, <1>27
     DEF Next, User, GuiWork, Bg, Child

\* A run's controls, dictionary and stop request are reset with the run.
LEMMA ResetStep ==
    ASSUME TypeOK, ProcInv, TaskInv, ResetInv, [Next]_vars PROVE ResetInv'
<1> USE DEF TypeOK, RunStates, ChildStates, GuiPoints, BgPoints, Faults, ResetInv, DictBelongsToRun, NoStaleStop, TaskInv, TaskFollowsRun, ProcInv, Up, vars, appVars, guiVars, taskVars, childVars
<1>1. CASE OnRunNothing
  BY <1>1 DEF OnRunNothing, Idle, ClearOutput, Nothing, Counts, Streams
<1>2. CASE OnRunExec
  BY <1>2 DEF OnRunExec, Idle, ClearOutput, Nothing, Counts, Streams
<1>3. CASE OnRunExecFails
  BY <1>3 DEF OnRunExecFails, Idle, ClearOutput, Nothing, Counts, Streams
<1>4. CASE OnStop
  BY <1>4 DEF OnStop, Idle
<1>5. CASE OnReplace
  BY <1>5 DEF OnReplace, Idle, ReplaceEnabled
<1>6. CASE OnClose
  BY <1>6 DEF OnClose, Idle, Cancel
<1>7. CASE WaitPid
  BY <1>7 DEF WaitPid
<1>8. CASE ClosePipes
  BY <1>8 DEF ClosePipes
<1>9. CASE FreeProc
  BY <1>9 DEF FreeProc
<1>10. CASE NullProc
  BY <1>10 DEF NullProc
<1>11. CASE Terminate
  BY <1>11 DEF Terminate
<1>12. CASE TickStart
  BY <1>12 DEF TickStart, Tick, Idle
<1>13. CASE UpdateCancel
  BY <1>13 DEF UpdateCancel, Tick, Idle, Cancel
<1>14. CASE UpdateRead
  BY <1>14 DEF UpdateRead, Tick, Idle, Pending, AllEof, AtEof, Counts, Streams
<1>15. CASE TickEnd
  BY <1>15 DEF TickEnd, Tick, Idle, EndReset, Verdict
<1>16. CASE BgDispatch
  BY <1>16 DEF BgDispatch
<1>17. CASE BgAssert
  BY <1>17 DEF BgAssert, BgStep
<1>18. CASE BgDeref
  BY <1>18 DEF BgDeref, BgStep
<1>19. CASE BgWhile
  BY <1>19 DEF BgWhile, BgStep
<1>20. CASE BgPoll
  BY <1>20 DEF BgPoll, BgStep
<1>21. CASE BgSleep
  BY <1>21 DEF BgSleep, BgStep
<1>22. CASE BgFinish
  BY <1>22 DEF BgFinish
<1>23. CASE ChildSetsid
  BY <1>23 DEF ChildSetsid
<1>24. CASE ChildExit
  BY <1>24 DEF ChildExit
<1>25. ASSUME NEW s \in Streams, ChildWrite(s) PROVE ResetInv'
  BY <1>25 DEF ChildWrite, Counts, Streams
<1>26. ASSUME NEW s \in Streams, ChildCloseStream(s) PROVE ResetInv'
  BY <1>26 DEF ChildCloseStream
<1>27. CASE Over \/ UNCHANGED vars
  BY <1>27 DEF Over
<1> QED
  BY <1>1, <1>2, <1>3, <1>4, <1>5, <1>6, <1>7, <1>8, <1>9, <1>10, <1>11, <1>12, <1>13, <1>14, <1>15, <1>16, <1>17, <1>18, <1>19, <1>20, <1>21, <1>22, <1>23, <1>24, <1>25, <1>26, <1>27
     DEF Next, User, GuiWork, Bg, Child

\* The end of file on both streams, once seen, is final.
LEMMA OutputStep ==
    ASSUME TypeOK, ProcInv, OutputInv, [Next]_vars PROVE OutputInv'
<1> USE DEF TypeOK, RunStates, ChildStates, GuiPoints, BgPoints, Faults, OutputInv, ProcInv, Up, vars, appVars, guiVars, taskVars, childVars
<1>1. CASE OnRunNothing
  BY <1>1 DEF OnRunNothing, Idle, ClearOutput, Nothing, Counts, Streams
<1>2. CASE OnRunExec
  BY <1>2 DEF OnRunExec, Idle, ClearOutput, Nothing, Counts, Streams
<1>3. CASE OnRunExecFails
  BY <1>3 DEF OnRunExecFails, Idle, ClearOutput, Nothing, Counts, Streams
<1>4. CASE OnStop
  BY <1>4 DEF OnStop, Idle
<1>5. CASE OnReplace
  BY <1>5 DEF OnReplace, Idle, ReplaceEnabled
<1>6. CASE OnClose
  BY <1>6 DEF OnClose, Idle, Cancel
<1>7. CASE WaitPid
  BY <1>7 DEF WaitPid
<1>8. CASE ClosePipes
  BY <1>8 DEF ClosePipes
<1>9. CASE FreeProc
  BY <1>9 DEF FreeProc
<1>10. CASE NullProc
  BY <1>10 DEF NullProc
<1>11. CASE Terminate
  BY <1>11 DEF Terminate
<1>12. CASE TickStart
  BY <1>12 DEF TickStart, Tick, Idle
<1>13. CASE UpdateCancel
  BY <1>13 DEF UpdateCancel, Tick, Idle, Cancel
<1>14. CASE UpdateRead
  BY <1>14 DEF UpdateRead, Tick, Idle, Pending, AllEof, AtEof, Counts, Streams
<1>15. CASE TickEnd
  BY <1>15 DEF TickEnd, Tick, Idle, EndReset, Verdict
<1>16. CASE BgDispatch
  BY <1>16 DEF BgDispatch
<1>17. CASE BgAssert
  BY <1>17 DEF BgAssert, BgStep
<1>18. CASE BgDeref
  BY <1>18 DEF BgDeref, BgStep
<1>19. CASE BgWhile
  BY <1>19 DEF BgWhile, BgStep
<1>20. CASE BgPoll
  BY <1>20 DEF BgPoll, BgStep
<1>21. CASE BgSleep
  BY <1>21 DEF BgSleep, BgStep
<1>22. CASE BgFinish
  BY <1>22 DEF BgFinish
<1>23. CASE ChildSetsid
  BY <1>23 DEF ChildSetsid
<1>24. CASE ChildExit
  BY <1>24 DEF ChildExit
<1>25. ASSUME NEW s \in Streams, ChildWrite(s) PROVE OutputInv'
  BY <1>25 DEF ChildWrite, Counts, Streams
<1>26. ASSUME NEW s \in Streams, ChildCloseStream(s) PROVE OutputInv'
  BY <1>26 DEF ChildCloseStream
<1>27. CASE Over \/ UNCHANGED vars
  BY <1>27 DEF Over
<1> QED
  BY <1>1, <1>2, <1>3, <1>4, <1>5, <1>6, <1>7, <1>8, <1>9, <1>10, <1>11, <1>12, <1>13, <1>14, <1>15, <1>16, <1>17, <1>18, <1>19, <1>20, <1>21, <1>22, <1>23, <1>24, <1>25, <1>26, <1>27
     DEF Next, User, GuiWork, Bg, Child

\* The label is stale by no step of either thread.
LEMMA LabelStep ==
    ASSUME TypeOK, ProcInv, TaskInv, ResetInv, LabelInv, [Next]_vars PROVE LabelInv'
<1> USE DEF TypeOK, RunStates, ChildStates, GuiPoints, BgPoints, Faults, LabelInv, ProcInv, TaskInv, TaskFollowsRun, ResetInv, NoStaleStop, Up, vars, appVars, guiVars, taskVars, childVars
<1>1. CASE OnRunNothing
  BY <1>1 DEF OnRunNothing, Idle, ClearOutput, Nothing, Counts, Streams
<1>2. CASE OnRunExec
  BY <1>2 DEF OnRunExec, Idle, ClearOutput, Nothing, Counts, Streams
<1>3. CASE OnRunExecFails
  BY <1>3 DEF OnRunExecFails, Idle, ClearOutput, Nothing, Counts, Streams
<1>4. CASE OnStop
  BY <1>4 DEF OnStop, Idle
<1>5. CASE OnReplace
  BY <1>5 DEF OnReplace, Idle, ReplaceEnabled
<1>6. CASE OnClose
  BY <1>6 DEF OnClose, Idle, Cancel
<1>7. CASE WaitPid
  BY <1>7 DEF WaitPid
<1>8. CASE ClosePipes
  BY <1>8 DEF ClosePipes
<1>9. CASE FreeProc
  BY <1>9 DEF FreeProc
<1>10. CASE NullProc
  BY <1>10 DEF NullProc
<1>11. CASE Terminate
  BY <1>11 DEF Terminate
<1>12. CASE TickStart
  BY <1>12 DEF TickStart, Tick, Idle
<1>13. CASE UpdateCancel
  BY <1>13 DEF UpdateCancel, Tick, Idle, Cancel
<1>14. CASE UpdateRead
  BY <1>14 DEF UpdateRead, Tick, Idle, Pending, AllEof, AtEof, Counts, Streams
<1>15. CASE TickEnd
  BY <1>15 DEF TickEnd, Tick, Idle, EndReset, Verdict
<1>16. CASE BgDispatch
  BY <1>16 DEF BgDispatch
<1>17. CASE BgAssert
  BY <1>17 DEF BgAssert, BgStep
<1>18. CASE BgDeref
  BY <1>18 DEF BgDeref, BgStep
<1>19. CASE BgWhile
  BY <1>19 DEF BgWhile, BgStep
<1>20. CASE BgPoll
  BY <1>20 DEF BgPoll, BgStep
<1>21. CASE BgSleep
  BY <1>21 DEF BgSleep, BgStep
<1>22. CASE BgFinish
  BY <1>22 DEF BgFinish
<1>23. CASE ChildSetsid
  BY <1>23 DEF ChildSetsid
<1>24. CASE ChildExit
  BY <1>24 DEF ChildExit
<1>25. ASSUME NEW s \in Streams, ChildWrite(s) PROVE LabelInv'
  BY <1>25 DEF ChildWrite, Counts, Streams
<1>26. ASSUME NEW s \in Streams, ChildCloseStream(s) PROVE LabelInv'
  BY <1>26 DEF ChildCloseStream
<1>27. CASE Over \/ UNCHANGED vars
  BY <1>27 DEF Over
<1> QED
  BY <1>1, <1>2, <1>3, <1>4, <1>5, <1>6, <1>7, <1>8, <1>9, <1>10, <1>11, <1>12, <1>13, <1>14, <1>15, <1>16, <1>17, <1>18, <1>19, <1>20, <1>21, <1>22, <1>23, <1>24, <1>25, <1>26, <1>27
     DEF Next, User, GuiWork, Bg, Child

\* The inductive invariant holds in the initial state.
LEMMA InitIInv == Init => IInv
<1>1. Init => TypeOK
  <2>1. Nothing \in Counts
    BY BoundAssumption DEF Nothing, Counts
  <2> QED
    BY <2>1 DEF Init, TypeOK, RunStates, GuiPoints, BgPoints, Faults,
       ChildStates
<1>2. Init => ProcInv /\ TaskInv /\ ResetInv /\ LabelInv
  BY DEF Init, ProcInv, TaskInv, TaskFollowsRun, ResetInv, DictBelongsToRun,
     NoStaleStop, LabelInv
<1>3. Init => OutputInv
  BY DEF Init, OutputInv, Nothing
<1> QED
  BY <1>1, <1>2, <1>3 DEF IInv

\* The inductive invariant holds of every reachable state.
THEOREM Invariance == Spec => []IInv
<1>1. IInv /\ [Next]_vars => IInv'
  BY TypeStep, ProcStep, TaskStep, ResetStep, OutputStep, LabelStep DEF IInv
<1> QED
  BY InitIInv, <1>1, PTL DEF Spec

\* Every variable keeps its type: in particular no counter leaves its bound
\* and run_state, task state and label stay within their enumerations.
THEOREM TypeCorrect == Spec => []TypeOK
<1>1. IInv => TypeOK
  BY DEF IInv
<1> QED
  BY Invariance, <1>1, PTL

\* i_run_update never works on a process that i_OnClose, a stop or the end of
\* the output has closed.
THEOREM UpdateHasProcTheorem == Spec => []UpdateHasProc
<1>1. IInv => UpdateHasProc
  BY DEF IInv, ProcInv, UpdateHasProc, Idle, Up
<1> QED
  BY Invariance, <1>1, PTL

\* i_run_end always finds COMPLETE or CANCEL, so the window never wedges.
THEOREM EndFindsOutcomeTheorem == Spec => []EndFindsOutcome
<1>1. IInv => EndFindsOutcome
  BY DEF IInv, TypeOK, RunStates, GuiPoints, ProcInv, TaskInv, TaskFollowsRun,
     EndFindsOutcome, Idle, Up
<1> QED
  BY Invariance, <1>1, PTL

\* A completed run has shown all its output, whatever processes the command
\* left behind and in whatever order they closed the streams.
THEOREM CompleteIsDrainedTheorem == Spec => []CompleteIsDrained
<1>1. IInv => CompleteIsDrained
  BY DEF IInv, OutputInv, CompleteIsDrained
<1> QED
  BY Invariance, <1>1, PTL

\* The dictionary of replace mode lives exactly as long as the run using it.
THEOREM DictBelongsToRunTheorem == Spec => []DictBelongsToRun
<1>1. IInv => DictBelongsToRun
  BY DEF IInv, ResetInv
<1> QED
  BY Invariance, <1>1, PTL

\* A stop request never outlives the run it was meant for, so no run starts
\* with the stop of the one before.
THEOREM NoStaleStopTheorem == Spec => []NoStaleStop
<1>1. IInv => NoStaleStop
  BY DEF IInv, ResetInv
<1> QED
  BY Invariance, <1>1, PTL

\* At most one task, and only while a run is under way.
THEOREM TaskFollowsRunTheorem == Spec => []TaskFollowsRun
<1>1. IInv => TaskFollowsRun
  BY DEF IInv, TaskInv
<1> QED
  BY Invariance, <1>1, PTL

-----------------------------------------------------------------------------
(* Why the program can fail before its window is closed.                   *)

\* While a prompt task thread is on its way to the loop of wait_exit, only the
\* close of the window takes its process away.
PromptInv ==
    ~ThreadMayLag /\ (task = "WAITING" \/ bg \in Starting) =>
        /\ runState = "INPROGRESS"
        /\ gui # "loop" => cont = "quit"

CauseInv ==
    fault # "none" =>
        Closing \/ ThreadMayLag \/ (ExecMayFail /\ fault = "exec_null")

LEMMA PromptStep ==
    ASSUME IInv, PromptInv, CauseInv, [Next]_vars PROVE PromptInv' /\ CauseInv'
<1> USE DEF IInv, ResetInv, DictBelongsToRun, PromptInv, CauseInv, Closing, Starting, TypeOK, RunStates, GuiPoints, BgPoints, Faults, ProcInv, TaskInv, TaskFollowsRun, Up, vars, appVars, guiVars, taskVars, childVars
<1>1. CASE OnRunNothing
  BY <1>1 DEF OnRunNothing, Idle, ClearOutput
<1>2. CASE OnRunExec
  BY <1>2 DEF OnRunExec, Idle, ClearOutput
<1>3. CASE OnRunExecFails
  BY <1>3 DEF OnRunExecFails, Idle, ClearOutput
<1>4. CASE OnStop
  BY <1>4 DEF OnStop, Idle
<1>5. CASE OnReplace
  BY <1>5 DEF OnReplace, Idle, ReplaceEnabled
<1>6. CASE OnClose
  BY <1>6 DEF OnClose, Idle, Cancel
<1>7. CASE WaitPid
  BY <1>7 DEF WaitPid
<1>8. CASE ClosePipes
  BY <1>8 DEF ClosePipes
<1>9. CASE FreeProc
  BY <1>9 DEF FreeProc
<1>10. CASE NullProc
  BY <1>10 DEF NullProc
<1>11. CASE Terminate
  BY <1>11 DEF Terminate
<1>12. CASE TickStart
  BY <1>12 DEF TickStart, Tick, Idle
<1>13. CASE UpdateCancel
  BY <1>13 DEF UpdateCancel, Tick, Idle, Cancel
<1>14. CASE UpdateRead
  BY <1>14 DEF UpdateRead, Tick, Idle
<1>15. CASE TickEnd
  BY <1>15 DEF TickEnd, Tick, Idle, EndReset, Verdict
<1>16. CASE BgDispatch
  BY <1>16 DEF BgDispatch
<1>17. CASE BgAssert
  BY <1>17 DEF BgAssert, BgStep
<1>18. CASE BgDeref
  BY <1>18 DEF BgDeref, BgStep
<1>19. CASE BgWhile
  BY <1>19 DEF BgWhile, BgStep
<1>20. CASE BgPoll
  BY <1>20 DEF BgPoll, BgStep
<1>21. CASE BgSleep
  BY <1>21 DEF BgSleep, BgStep
<1>22. CASE BgFinish
  BY <1>22 DEF BgFinish
<1>23. CASE ChildSetsid
  BY <1>23 DEF ChildSetsid
<1>24. CASE ChildExit
  BY <1>24 DEF ChildExit
<1>25. ASSUME NEW s \in Streams, ChildWrite(s) PROVE PromptInv' /\ CauseInv'
  BY <1>25 DEF ChildWrite
<1>26. ASSUME NEW s \in Streams, ChildCloseStream(s) PROVE PromptInv' /\ CauseInv'
  BY <1>26 DEF ChildCloseStream
<1>27. CASE Over \/ UNCHANGED vars
  BY <1>27 DEF Over
<1> QED
  BY <1>1, <1>2, <1>3, <1>4, <1>5, <1>6, <1>7, <1>8, <1>9, <1>10, <1>11, <1>12, <1>13, <1>14, <1>15, <1>16, <1>17, <1>18, <1>19, <1>20, <1>21, <1>22, <1>23, <1>24, <1>25, <1>26, <1>27
     DEF Next, User, GuiWork, Bg, Child

\* Whatever the switches: before the window is closed the program fails only
\* because a fork failed or because the task thread is late, which the comments
\* of bproc_wait_exit leave to chance.
THEOREM FaultCauses == Spec => []CauseInv
<1>1. Init => PromptInv /\ CauseInv
  BY DEF Init, PromptInv, CauseInv, Starting
<1>2. IInv /\ PromptInv /\ CauseInv /\ [Next]_vars => PromptInv' /\ CauseInv'
  BY PromptStep
<1> QED
  BY Invariance, <1>1, <1>2, PTL DEF Spec

\* With a prompt task thread and forks that succeed nothing fails until the
\* user closes the window, also if the command ignores SIGHUP.
THEOREM NoFaultBeforeCloseTheorem ==
    ASSUME ~ThreadMayLag, ~ExecMayFail
    PROVE  Spec => []NoFaultBeforeClose
<1>1. CauseInv => NoFaultBeforeClose
  BY DEF CauseInv, NoFaultBeforeClose
<1> QED
  BY FaultCauses, <1>1, PTL

-----------------------------------------------------------------------------
(* CommandRun implements RunStatus.                                        *)

\* Initially the window is open, the label says ready and nothing was written.
LEMMA PromiseInit == Init => Promise!Init
  BY DEF Init, Promise!Init, Nothing, Promise!Nothing, Closing

\* Steps that neither the user nor the command can observe.
LEMMA HiddenStep ==
    ASSUME UNCHANGED <<status, written, shown>>, Closing' = Closing
    PROVE  UNCHANGED Promise!vars
  BY DEF Promise!vars

\* Every step of the threads and of the command is a step of the promise, or
\* is invisible in it.
LEMMA PromiseStep ==
    ASSUME IInv, [Next]_vars PROVE [Promise!Next]_(Promise!vars)
<1> USE DEF IInv, vars, appVars, guiVars, taskVars, childVars
<1>open. Idle => ~Closing
  BY DEF Idle, Closing
<1>1. CASE OnRunNothing
  <2>1. Promise!Begin("ready")
    BY <1>1, <1>open DEF OnRunNothing, Idle, Closing, LabelInv, ClearOutput,
       Nothing, Promise!Begin, Promise!Settled, Promise!Nothing
  <2> QED
    BY <2>1 DEF Promise!Next
<1>2. CASE OnRunExec \/ OnRunExecFails
  <2>1. Promise!Begin("running")
    BY <1>2, <1>open DEF OnRunExec, OnRunExecFails, Idle, Closing, LabelInv,
       ClearOutput, Nothing, Promise!Begin, Promise!Settled, Promise!Nothing
  <2> QED
    BY <2>1 DEF Promise!Next
<1>3. CASE OnStop
  <2>1. Promise!AskStop
    BY <1>3, <1>open DEF OnStop, Idle, Closing, LabelInv, Promise!AskStop,
       Promise!Active
  <2> QED
    BY <2>1 DEF Promise!Next
<1>4. CASE OnClose
  <2>1. Closing'
    BY <1>4 DEF OnClose, Cancel, Closing
  <2>2. Promise!Close
    BY <1>4, <2>1 DEF OnClose, Cancel, Promise!Close
  <2> QED
    BY <2>2 DEF Promise!Next
<1>5. CASE UpdateRead
  <2>1. Closing' = Closing
    BY <1>5 DEF UpdateRead, Tick, Idle, Closing
  <2>2. shown' \in [Streams -> Nat]
    BY <1>5 DEF UpdateRead, TypeOK, Counts
  <2>3. \A s \in Streams : shown[s] <= shown'[s] /\ shown'[s] <= written[s]
    BY <1>5 DEF UpdateRead, Pending, TypeOK, Counts, OutputInv
  <2>4. status \in Promise!Active
    BY <1>5 DEF UpdateRead, LabelInv, Promise!Active
  <2>5. Promise!Show
    BY <1>5, <2>1, <2>2, <2>3, <2>4 DEF UpdateRead, Promise!Show
  <2> QED
    BY <2>5 DEF Promise!Next
<1>6. CASE TickEnd
  <2>1. Closing' = Closing /\ UNCHANGED <<written, shown>> /\ ~Closing
    BY <1>6, <1>open DEF TickEnd, Tick, Closing
  <2>2. runState \in {"COMPLETE", "CANCEL"}
    BY <1>6 DEF TickEnd, Tick, TypeOK, RunStates, GuiPoints, ProcInv, TaskInv,
       TaskFollowsRun, Idle, Up
  <2>3. CASE runState = "COMPLETE"
    <3>1. Promise!Complete
      BY <1>6, <2>1, <2>3 DEF TickEnd, Verdict, OutputInv, LabelInv,
         Promise!Complete, Promise!Active
    <3> QED
      BY <3>1 DEF Promise!Next
  <2>4. CASE runState = "CANCEL"
    <3>1. Promise!Stopped
      BY <1>6, <2>1, <2>4 DEF TickEnd, Verdict, LabelInv, Promise!Stopped
    <3> QED
      BY <3>1 DEF Promise!Next
  <2> QED
    BY <2>2, <2>3, <2>4
<1>7. ASSUME NEW s \in Streams, ChildWrite(s)
      PROVE  [Promise!Next]_(Promise!vars)
  <2>1. status \in Promise!Active
    BY <1>7 DEF ChildWrite, ProcInv, LabelInv, Promise!Active
  <2>2. Promise!Write(s)
    BY <1>7, <2>1 DEF ChildWrite, Closing, Promise!Write
  <2> QED
    BY <2>2 DEF Promise!Next
<1>8. CASE NullProc
  <2>1. Closing' = Closing
    BY <1>8 DEF NullProc, Closing, ProcInv
  <2> QED
    BY <1>8, <2>1, HiddenStep DEF NullProc
<1>9. CASE WaitPid \/ ClosePipes \/ FreeProc
  <2>1. Closing' = Closing
    BY <1>9 DEF WaitPid, ClosePipes, FreeProc, Closing
  <2> QED
    BY <1>9, <2>1, HiddenStep DEF WaitPid, ClosePipes, FreeProc
<1>10. CASE OnReplace \/ TickStart
  <2>1. Closing' = Closing
    BY <1>10 DEF OnReplace, TickStart, Closing
  <2> QED
    BY <1>10, <2>1, HiddenStep DEF OnReplace, TickStart
<1>11. CASE Terminate
  <2>1. Closing' = Closing
    BY <1>11 DEF Terminate, Closing
  <2> QED
    BY <1>11, <2>1, HiddenStep DEF Terminate
<1>12. CASE UpdateCancel
  <2>1. Closing' = Closing
    BY <1>12 DEF UpdateCancel, Cancel, Tick, Idle, Closing
  <2> QED
    BY <1>12, <2>1, HiddenStep DEF UpdateCancel, Cancel
<1>13. CASE Bg
  <2>1. UNCHANGED <<appVars, guiVars, childVars>>
    BY <1>13 DEF Bg, BgDispatch, BgAssert, BgDeref, BgWhile, BgPoll, BgSleep,
       BgFinish, BgStep
  <2>2. Closing' = Closing
    BY <2>1 DEF Closing
  <2> QED
    BY <2>1, <2>2, HiddenStep
<1>14. ASSUME \/ ChildSetsid \/ ChildExit
              \/ \E s \in Streams : ChildCloseStream(s)
       PROVE  [Promise!Next]_(Promise!vars)
  <2>1. UNCHANGED <<appVars, guiVars, written>>
    BY <1>14 DEF ChildSetsid, ChildExit, ChildCloseStream
  <2>2. Closing' = Closing
    BY <2>1 DEF Closing
  <2> QED
    BY <2>1, <2>2, HiddenStep
<1>15. CASE Over \/ UNCHANGED vars
  <2>1. Closing' = Closing
    BY <1>15 DEF Over, Closing
  <2> QED
    BY <1>15, <2>1, HiddenStep DEF Over
<1> QED
  BY <1>1, <1>2, <1>3, <1>4, <1>5, <1>6, <1>7, <1>8, <1>9, <1>10, <1>11,
     <1>12, <1>13, <1>14, <1>15 DEF Next, User, GuiWork, Child

\* The two threads, the pipes and the process together implement the promise
\* about the status label and the output pane.
THEOREM Refinement == Spec => KeepsPromise
<1>1. IInv /\ [Next]_vars => [Promise!Next]_(Promise!vars)
  BY PromiseStep
<1> QED
  BY Invariance, PromiseInit, <1>1, PTL DEF Spec, KeepsPromise, Promise!Spec

=============================================================================
