---------------------------- MODULE CommandRun ----------------------------
(***************************************************************************)
(* The run of one shell command from the main window (kutes.c), with the   *)
(* two threads it lives on and the process it starts:                      *)
(*                                                                         *)
(*   GUI thread   GTK callbacks (run/stop button, replace button, window   *)
(*                close) and the timer tick of nappgui, which drives the   *)
(*                task scheduler (osapp.c) and through it i_run_update     *)
(*                and i_run_end;                                           *)
(*   task thread  i_dispatch_task -> bg_proc_main -> bproc_wait_exit,      *)
(*                which sleeps on a pipe until the GUI thread has closed   *)
(*                the process and then marks the task finished;            *)
(*   command      the bash child started by bproc_exec, with whatever it   *)
(*                forks itself (external: only what the GUI thread can     *)
(*                observe of it).                                          *)
(*                                                                         *)
(* GTK runs one callback at a time, so a callback is one action except     *)
(* where the task thread or the command can act in between: bproc_cancel   *)
(* blocks in waitpid, and bproc_close closes the pipes, frees the Proc and *)
(* only then clears the pointer the task thread reads.                     *)
(*                                                                         *)
(* A failed cassert, or a dereference of a NULL or freed Proc, sets fault  *)
(* and ends the behaviour: what the program does afterwards is undefined.  *)
(***************************************************************************)
EXTENDS Naturals

CONSTANTS
    MaxChunks,      \* bound: chunks a command writes to one stream
    ThreadMayLag,   \* may the task thread be slower than a timer tick to
                    \* get from bthread_create into the loop of wait_exit?
    MayIgnoreHup,   \* may the command ignore SIGHUP?
    ExecMayFail     \* may pipe(2) or fork(2) fail in bproc_exec?

ASSUME BoundAssumption == MaxChunks \in Nat \ {0}
ASSUME SwitchAssumption ==
    /\ ThreadMayLag \in BOOLEAN
    /\ MayIgnoreHup \in BOOLEAN
    /\ ExecMayFail \in BOOLEAN

Streams == {"stdout", "stderr"}

VARIABLES
    \* the App structure and the widgets the handlers set
    runState,   \* app->run_state
    stop,       \* app->stop
    proc,       \* app->proc: "NULL", "live" or "freed" (dangling)
    replace,    \* app->replace_line
    dict,       \* app->dict is allocated
    controls,   \* cmdin, nolimit and replace are enabled
    status,     \* the text of the status label
    shown,      \* chunks read from each stream in this run
    \* the GUI thread
    gui,        \* where it is: "loop", or inside bproc_cancel / bproc_close
    cont,       \* what follows the bproc_close it is in
    terminate,  \* osapp_finish was called
    \* the scheduler's task and its thread
    task,       \* state of the task, "none" when the scheduler is empty
    bg,         \* program counter of the task thread
    \* the command
    pipesOpen,  \* the parent's pipe ends are open
    child,      \* the bash process
    held,       \* streams whose write end the command's processes hold
    written,    \* chunks written to each stream in this run
    fault       \* "none", or why the behaviour ended

appVars   == <<runState, stop, proc, replace, dict, controls, status, shown>>
guiVars   == <<gui, cont, terminate>>
taskVars  == <<task, bg>>
childVars == <<pipesOpen, child, held, written>>
vars      == <<appVars, guiVars, taskVars, childVars, fault>>

RunStates   == {"INPROGRESS", "COMPLETE", "CANCEL", "ENDED"}
ChildStates == {"none", "forked", "session", "stubborn", "zombie", "reaped"}
GuiPoints   == {"loop", "waitpid", "close", "free", "null", "exited"}
BgPoints    == {"none", "created", "assert", "deref", "while", "poll",
                "sleep", "finish", "done"}
Faults      == {"none", "exec_null", "proc_null", "proc_freed",
                "second_thread", "dict_null", "tasks_at_exit"}
Counts      == [Streams -> 0..MaxChunks]
Starting    == {"created", "assert", "deref"}

TypeOK ==
    /\ runState \in RunStates
    /\ stop \in BOOLEAN
    /\ proc \in {"NULL", "live", "freed"}
    /\ replace \in BOOLEAN
    /\ dict \in BOOLEAN
    /\ controls \in BOOLEAN
    /\ status \in {"ready", "running", "stopping", "stopped", "completed",
                   "unknown"}
    /\ shown \in Counts
    /\ gui \in GuiPoints
    /\ cont \in {"COMPLETE", "CANCEL", "quit"}
    /\ terminate \in BOOLEAN
    /\ task \in {"none", "WAITING", "RUNNING", "FINISH"}
    /\ bg \in BgPoints
    /\ pipesOpen \in BOOLEAN
    /\ child \in ChildStates
    /\ held \subseteq Streams
    /\ written \in Counts
    /\ fault \in Faults

Nothing == [s \in Streams |-> 0]

Init ==
    /\ runState = "ENDED"
    /\ stop = FALSE
    /\ proc = "NULL"
    /\ replace = FALSE
    /\ dict = FALSE
    /\ controls = TRUE
    /\ status = "ready"
    /\ shown = Nothing
    /\ gui = "loop"
    /\ cont = "COMPLETE"
    /\ terminate = FALSE
    /\ task = "none"
    /\ bg = "none"
    /\ pipesOpen = FALSE
    /\ child = "none"
    /\ held = {}
    /\ written = Nothing
    /\ fault = "none"

-----------------------------------------------------------------------------
(* GUI thread: callbacks.  The window is hidden once it has been closed,   *)
(* so no callback runs after osapp_finish.                                 *)

\* The program runs and what it does is defined.
Up == fault = "none" /\ gui # "exited"

Idle_mut == Up /\ gui = "loop" \* ticks and callbacks go on after osapp_finish

Idle == Up /\ gui = "loop" /\ ~terminate

\* What i_OnRun does before it looks at the command line.
ClearOutput ==
    /\ shown' = Nothing
    /\ written' = Nothing

\* i_OnRun, nothing before the cursor: panes cleared, no command.
OnRunNothing ==
    /\ Idle
    /\ runState = "ENDED"
    /\ status' = "ready"
    /\ ClearOutput
    /\ UNCHANGED <<runState, stop, proc, replace, dict, controls, guiVars,
                   taskVars, pipesOpen, child, held, fault>>

\* i_OnRun, bproc_exec returned a process.
OnRunExec ==
    /\ Idle
    /\ runState = "ENDED"
    /\ ClearOutput
    /\ proc' = "live"
    /\ pipesOpen' = TRUE
    /\ child' = "forked"
    /\ held' = Streams
    /\ runState' = "INPROGRESS"
    /\ controls' = FALSE
    /\ status' = "running"
    /\ dict' = (dict \/ replace)
    /\ task' = "WAITING"
    /\ UNCHANGED <<stop, replace, guiVars, bg, fault>>

\* i_OnRun, bproc_exec returned NULL: bproc_write_close trips over it.
OnRunExecFails ==
    /\ ExecMayFail
    /\ Idle
    /\ runState = "ENDED"
    /\ ClearOutput
    /\ runState' = "INPROGRESS"
    /\ controls' = FALSE
    /\ status' = "running"
    /\ fault' = "exec_null"
    /\ UNCHANGED <<stop, proc, replace, dict, guiVars, taskVars, pipesOpen,
                   child, held>>

\* i_OnRun while a run is not over: the button says "stop".
OnStop ==
    /\ Idle
    /\ runState # "ENDED"
    /\ stop' = TRUE
    /\ status' = "stopping"
    /\ UNCHANGED <<runState, proc, replace, dict, controls, shown, guiVars,
                   taskVars, childVars, fault>>

ReplaceEnabled_mut == TRUE     \* cell_enabled(app->replace, FALSE) forgotten

ReplaceEnabled == controls

\* replace_line, reachable only while the button's cell is enabled.
OnReplace ==
    /\ Idle
    /\ ReplaceEnabled
    /\ replace' = ~replace
    /\ UNCHANGED <<runState, stop, proc, dict, controls, status, shown,
                   guiVars, taskVars, childVars, fault>>

-----------------------------------------------------------------------------
(* GUI thread: bproc_cancel and bproc_close, and what their callers do     *)
(* next.                                                                   *)

\* bproc_cancel: kill(-pid, SIGHUP) reaches the command only if it has
\* become the leader of its own process group with setsid.
Cancel(next) ==
    /\ cont' = next
    /\ IF child = "forked"
         THEN gui' = "close" /\ UNCHANGED <<child, held>>
         ELSE /\ gui' = "waitpid"
              /\ child' = IF child = "session" THEN "zombie" ELSE child
              /\ held' \in SUBSET held
    /\ UNCHANGED <<pipesOpen, written>>

WaitPid ==
    /\ Up
    /\ gui = "waitpid"
    /\ child = "zombie"
    /\ child' = "reaped"
    /\ gui' = "close"
    /\ UNCHANGED <<appVars, cont, terminate, taskVars, pipesOpen, held,
                   written, fault>>

\* bproc_close up to and including waitpid(WNOHANG).
ClosePipes ==
    /\ Up
    /\ gui = "close"
    /\ pipesOpen' = FALSE
    /\ child' = IF child = "zombie" THEN "reaped" ELSE child
    /\ gui' = "free"
    /\ UNCHANGED <<appVars, cont, terminate, taskVars, held, written, fault>>

FreeProc ==
    /\ Up
    /\ gui = "free"
    /\ proc' = "freed"
    /\ gui' = "null"
    /\ UNCHANGED <<runState, stop, replace, dict, controls, status, shown,
                   cont, terminate, taskVars, childVars, fault>>

\* *proc = NULL, the caller's assignment after it, and back to the loop.
NullProc ==
    /\ Up
    /\ gui = "null"
    /\ proc' = "NULL"
    /\ runState' = IF cont = "quit" THEN runState ELSE cont
    /\ terminate' = (cont = "quit")
    /\ gui' = "loop"
    /\ UNCHANGED <<stop, replace, dict, controls, status, shown, cont,
                   taskVars, childVars, fault>>

\* i_OnClose, with and without a process.
OnClose ==
    /\ Idle
    /\ IF proc = "NULL"
         THEN terminate' = TRUE /\ UNCHANGED <<gui, cont, childVars>>
         ELSE Cancel("quit") /\ UNCHANGED terminate
    /\ UNCHANGED <<appVars, taskVars, fault>>

-----------------------------------------------------------------------------
(* GUI thread: the timer tick.                                             *)

\* i_OnTimerLoop: once osapp_finish was called a tick only terminates.
Tick == Idle /\ (ThreadMayLag \/ bg \notin Starting)

Terminate_mut ==              \* waits for the task instead of asserting
    /\ Up
    /\ gui = "loop"
    /\ terminate
    /\ bg = "done"
    /\ gui' = "exited"
    /\ UNCHANGED <<appVars, cont, terminate, taskVars, childVars, fault>>

Terminate ==
    /\ Up
    /\ gui = "loop"
    /\ terminate
    /\ IF task = "none"
         THEN gui' = "exited" /\ UNCHANGED fault
         ELSE fault' = "tasks_at_exit" /\ UNCHANGED gui
    /\ UNCHANGED <<appVars, cont, terminate, taskVars, childVars>>

\* i_scheduler_cycle on a waiting task.  The task stays WAITING until the
\* new thread says otherwise.
TickStart ==
    /\ Tick
    /\ task = "WAITING"
    /\ IF bg = "none"
         THEN bg' = "created" /\ UNCHANGED fault
         ELSE fault' = "second_thread" /\ UNCHANGED bg
    /\ UNCHANGED <<appVars, guiVars, task, childVars>>

Pending(s) == written[s] - shown[s]

\* bproc_read / bproc_eread: nothing to read and nobody left to write.
AtEof(s) == Pending(s) = 0 /\ s \notin held

AllEof_mut == AtEof("stdout")  \* err != ekPAGAIN not tested

AllEof_mut2 == Pending("stdout") = 0 /\ Pending("stderr") = 0
                               \* "nothing to read" taken for end of file

AllEof_mut3 == (\A s \in Streams : AtEof(s)) /\ child = "reaped"
                               \* waits for an exit nobody reaps

AllEof == \A s \in Streams : AtEof(s)

\* i_run_update with stop set.
UpdateCancel ==
    /\ Tick
    /\ task = "RUNNING"
    /\ runState = "INPROGRESS"
    /\ stop
    /\ Cancel("CANCEL")
    /\ UNCHANGED <<appVars, terminate, taskVars, fault>>

\* i_run_update, one read of each stream.
UpdateRead ==
    /\ Tick
    /\ task = "RUNNING"
    /\ runState = "INPROGRESS"
    /\ ~stop
    /\ shown' = [s \in Streams |->
                    IF Pending(s) > 0 THEN shown[s] + 1 ELSE shown[s]]
    /\ IF AllEof
         THEN gui' = "close" /\ cont' = "COMPLETE"
         ELSE UNCHANGED <<gui, cont>>
    /\ UNCHANGED <<runState, stop, proc, replace, dict, controls, status,
                   terminate, taskVars, childVars, fault>>

Verdict == CASE runState = "COMPLETE" -> "completed"
             [] runState = "CANCEL"   -> "stopped"
             [] OTHER                 -> "unknown"

EndReset_mut == controls' = TRUE /\ stop' = (stop /\ runState # "CANCEL")
                               \* stop cleared only where it was acted on

EndReset == controls' = TRUE /\ stop' = FALSE

\* i_scheduler_cycle on a finished task: join, i_run_end, delete.
TickEnd ==
    /\ Tick
    /\ task = "FINISH"
    /\ bg = "done"
    /\ dict' = (dict /\ ~replace)
    /\ fault' = IF replace /\ ~dict THEN "dict_null" ELSE fault
    /\ EndReset
    /\ status' = Verdict
    /\ runState' = IF Verdict = "unknown" THEN runState ELSE "ENDED"
    /\ task' = "none"
    /\ bg' = "none"
    /\ UNCHANGED <<proc, replace, shown, guiVars, childVars>>

-----------------------------------------------------------------------------
(* Task thread.                                                            *)

BgStep(from, to) ==
    /\ Up
    /\ bg = from
    /\ bg' = to
    /\ UNCHANGED <<appVars, guiVars, task, childVars, fault>>

BgDispatch_mut == BgStep("created", "assert")   \* RUNNING not set yet

\* i_dispatch_task up to the call of func_main.
BgDispatch ==
    /\ Up
    /\ bg = "created"
    /\ task' = "RUNNING"
    /\ bg' = "assert"
    /\ UNCHANGED <<appVars, guiVars, childVars, fault>>

\* cassert_no_null(*proc)
BgAssert ==
    IF proc = "NULL"
      THEN /\ Up
           /\ bg = "assert"
           /\ fault' = "proc_null"
           /\ UNCHANGED <<appVars, guiVars, taskVars, childVars>>
      ELSE BgStep("assert", "deref")

\* fds[0].fd = (*proc)->pipes[CLOSE_READ]
BgDeref ==
    IF proc = "live"
      THEN BgStep("deref", "while")
      ELSE /\ Up
           /\ bg = "deref"
           /\ fault' = IF proc = "NULL" THEN "proc_null" ELSE "proc_freed"
           /\ UNCHANGED <<appVars, guiVars, taskVars, childVars>>

BgWhile_mut == BgStep("while", "poll")          \* while (TRUE)

\* while (*proc)
BgWhile == BgStep("while", IF proc = "NULL" THEN "finish" ELSE "poll")

\* poll returned.  fds[0].events is uninitialised, so it may return at once
\* on an open pipe.  After the close it sees POLLNVAL and leaves the loop if
\* it was called after it, POLLERR (not tested for) if it was asleep.
BgPoll ==
    \/ BgStep("poll", "sleep")
    \/ ~pipesOpen /\ BgStep("poll", "finish")

BgSleep == BgStep("sleep", "while")

\* The rest of i_dispatch_task; the thread can be joined.
BgFinish ==
    /\ Up
    /\ bg = "finish"
    /\ task' = "FINISH"
    /\ bg' = "done"
    /\ UNCHANGED <<appVars, guiVars, childVars, fault>>

Bg == BgDispatch \/ BgAssert \/ BgDeref \/ BgWhile \/ BgPoll \/ BgSleep
      \/ BgFinish

-----------------------------------------------------------------------------
(* The command (external).                                                 *)

ChildSetsid ==
    /\ Up
    /\ child = "forked"
    /\ \/ child' = "session"
       \/ MayIgnoreHup /\ child' = "stubborn"
    /\ UNCHANGED <<appVars, guiVars, taskVars, pipesOpen, held, written,
                   fault>>

ChildWrite(s) ==
    /\ Up
    /\ pipesOpen
    /\ s \in held
    /\ child # "forked"
    /\ written[s] < MaxChunks
    /\ written' = [written EXCEPT ![s] = @ + 1]
    /\ UNCHANGED <<appVars, guiVars, taskVars, pipesOpen, child, held, fault>>

\* The last process holding a stream closes it, be it by exiting.
ChildCloseStream(s) ==
    /\ Up
    /\ s \in held
    /\ child # "forked"
    /\ held' = held \ {s}
    /\ UNCHANGED <<appVars, guiVars, taskVars, pipesOpen, child, written,
                   fault>>

\* bash exits; processes it left behind may keep its streams open.
ChildExit ==
    /\ Up
    /\ child \in {"session", "stubborn"}
    /\ child' = "zombie"
    /\ held' \in SUBSET held
    /\ UNCHANGED <<appVars, guiVars, taskVars, pipesOpen, written, fault>>

-----------------------------------------------------------------------------

GuiWork == \/ WaitPid \/ ClosePipes \/ FreeProc \/ NullProc
           \/ Terminate \/ TickStart \/ UpdateCancel \/ UpdateRead \/ TickEnd

User == OnRunNothing \/ OnRunExec \/ OnRunExecFails \/ OnStop \/ OnReplace
        \/ OnClose

Child == \/ ChildSetsid
         \/ \E s \in Streams : ChildWrite(s) \/ ChildCloseStream(s)
         \/ ChildExit

\* The program has ended, or its behaviour is no longer defined.
Over == ~Up /\ UNCHANGED vars

Next == User \/ GuiWork \/ Bg \/ Child \/ Over

Spec == Init /\ [][Next]_vars

\* The timer keeps ticking, a callback that can go on goes on, and the task
\* thread gets the processor.  Nothing is assumed of the user or the command.
FairSpec == Spec /\ WF_vars(GuiWork) /\ WF_vars(Bg)

-----------------------------------------------------------------------------
(* Safety.                                                                 *)

\* i_run_update never hands a NULL or freed process to bproc_read, bproc_eread
\* or bproc_cancel, although three handlers close the process: whenever a
\* tick can run it on a run in progress, app->proc is live.
UpdateHasProc ==
    Idle /\ runState = "INPROGRESS" => proc = "live"

\* i_run_end never finds the run in a state it answers with "unknown", which
\* would leave run_state as it is and the window unable to run anything: the
\* task thread finishes only after the GUI thread has settled the outcome.
EndFindsOutcome ==
    Idle /\ task = "FINISH" => runState \in {"COMPLETE", "CANCEL"}

\* A run completes only when all the command and its descendants wrote to
\* either stream has been displayed, and none of them can write more.
CompleteIsDrained ==
    runState = "COMPLETE" => shown = written /\ held = {}

\* The dictionary of replace mode exists exactly while a run that uses it is
\* under way: replace_result never dereferences NULL, i_run_end never destroys
\* NULL, and no run inherits or leaks the dictionary of another.
DictBelongsToRun ==
    fault = "none" => (dict <=> replace /\ task # "none")

\* A stop pressed too late, between the end of the command and i_run_end, is
\* forgotten: it does not stop the next run.
NoStaleStop == runState = "ENDED" => ~stop

\* The scheduler holds a task exactly while a run is under way, so i_OnRun
\* never queues a second one on the same App.
TaskFollowsRun == fault # "exec_null" => (task # "none" <=> runState # "ENDED")

\* With a prompt task thread and a bproc_exec that succeeds, no assertion
\* fails and no stale process is touched until the user closes the window.
Closing == terminate \/ (gui # "loop" /\ cont = "quit")

NoFaultBeforeClose == fault # "none" => Closing

-----------------------------------------------------------------------------
(* Refinement and liveness.                                                *)

Promise == INSTANCE RunStatus WITH open <- ~Closing

\* The status label and the output pane keep the promise of RunStatus ...
KeepsPromise == Promise!Spec

\* ... and a stop request is answered, if the command obeys SIGHUP.
AnswersStop == Promise!FairSpec

\* When nothing holds the command's streams any more, the run ends by itself.
DrainedRunEnds ==
    runState = "INPROGRESS" /\ held = {} ~> runState = "ENDED" \/ Closing

\* With no run under way, closing the window ends the program.
CloseExits == terminate /\ task = "none" ~> gui = "exited"

-----------------------------------------------------------------------------
(* Assertions of the code this model shows to fail.                        *)

\* bproc.c, bproc_wait_exit: cassert_no_null(*proc).
WaitExitGetsProc == fault \notin {"proc_null", "proc_freed"}
=============================================================================
