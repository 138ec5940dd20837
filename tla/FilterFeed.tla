----------------------------- MODULE FilterFeed -----------------------------
(***************************************************************************)
(* The filter view gives its command the whole document on stdin before    *)
(* the GUI thread returns to its loop and reads what the command prints    *)
(* (i_OnRun of list.c, bproc_write of bproc.c).  The three meet at two     *)
(* pipes of bounded size: writes to stdin block, reads of stdout do not.   *)
(*                                                                         *)
(* The command is one of four programs: "cat" prints what it reads as it   *)
(* goes, "jq" reads to the end and then prints, "head" may end at any time *)
(* and "sleep" never reads.  Stderr and the lock on the views are in       *)
(* Workspace, and commands that ignore SIGHUP in CommandRun.               *)
(***************************************************************************)
EXTENDS Integers

CONSTANTS
    Chunk,      \* READ_BUFFER - 1, bytes of one bproc_write or bproc_read
    PipeSize,   \* bytes a pipe holds
    Commands,   \* the programs the user may run
    MaxSize     \* bound: bytes of the document, and of what jq prints

ASSUME FeedAssumption ==
    /\ Chunk \in Nat /\ Chunk > 0
    /\ PipeSize \in Nat /\ PipeSize > 0
    /\ Commands \subseteq {"cat", "jq", "head", "sleep"}
    /\ MaxSize \in Nat

VARIABLES
    gui,        \* "idle", "write" and "close" in i_OnRun, "loop"
    times,      \* of i_OnRun: writes of a whole chunk still to come
    remain,     \* of i_OnRun: the size of the last write
    rest,       \* bytes the current write has still to put in the pipe
    moved,      \* the current write has put some
    size,       \* of the document
    stop,       \* data->stop
    outcome,    \* how the last run ended: "none", "complete", "cancel"
    stdin,      \* bytes in the pipe to the command
    stdinOpen,  \* our end of it
    stdout,     \* bytes in the pipe from the command
    command,
    child,      \* "none", "read", "print", "done"
    held,       \* bytes the command has still to print before it reads on
    taken,      \* bytes it has read
    printed,    \* bytes it has printed
    shown       \* bytes displayed

guiVars   == <<gui, times, remain, rest, moved, size, stop, outcome>>
childVars == <<command, child, held, taken, printed>>
vars      == <<guiVars, stdin, stdinOpen, stdout, childVars, shown>>

TypeOK ==
    /\ gui \in {"idle", "write", "close", "loop"}
    /\ times \in Nat
    /\ remain \in 0..Chunk - 1
    /\ rest \in 0..Chunk
    /\ moved \in BOOLEAN
    /\ size \in 0..MaxSize
    /\ stop \in BOOLEAN
    /\ outcome \in {"none", "complete", "cancel"}
    /\ stdin \in 0..PipeSize /\ stdout \in 0..PipeSize
    /\ stdinOpen \in BOOLEAN
    /\ command \in Commands \union {"none"}
    /\ child \in {"none", "read", "print", "done"}
    /\ held \in 0..MaxSize
    /\ taken \in 0..MaxSize
    /\ printed \in Nat
    /\ shown \in Nat

Init ==
    /\ gui = "idle"
    /\ times = 0 /\ remain = 0 /\ rest = 0 /\ moved = FALSE
    /\ size = 0
    /\ stop = FALSE /\ outcome = "none"
    /\ stdin = 0 /\ stdinOpen = FALSE /\ stdout = 0
    /\ command = "none" /\ child = "none"
    /\ held = 0 /\ taken = 0 /\ printed = 0 /\ shown = 0

-----------------------------------------------------------------------------
(* The GUI thread.                                                         *)

\* i_OnRun with a document of n bytes, up to the first write.
OnRun(n, cmd) ==
    /\ gui = "idle"
    /\ gui' = "write"
    /\ times' = n \div Chunk
    /\ remain' = n % Chunk
    /\ rest' = 0 /\ moved' = FALSE
    /\ size' = n
    /\ stop' = FALSE /\ outcome' = "none"
    /\ stdin' = 0 /\ stdinOpen' = TRUE /\ stdout' = 0
    /\ command' = cmd /\ child' = "read"
    /\ held' = 0 /\ taken' = 0 /\ printed' = 0 /\ shown' = 0

\* The next bproc_write: whole chunks first, then what remains.
NextWrite_mut ==                \* one chunk too few when nothing remains
    /\ gui = "write" /\ rest = 0
    /\ moved' = FALSE
    /\ \/ /\ times > 1 \/ (times = 1 /\ remain > 0)
          /\ rest' = Chunk
          /\ times' = times - 1
          /\ UNCHANGED <<gui, remain>>
       \/ /\ times = 0 /\ remain > 0
          /\ rest' = remain
          /\ remain' = 0
          /\ UNCHANGED <<gui, times>>
       \/ /\ times <= 1 /\ remain = 0
          /\ gui' = "close"
          /\ UNCHANGED <<times, remain, rest>>
    /\ UNCHANGED <<size, stop, outcome, stdin, stdinOpen, stdout, childVars,
                   shown>>

NextWrite_mut2 ==               \* every write is a whole chunk
    /\ gui = "write" /\ rest = 0
    /\ moved' = FALSE
    /\ \/ /\ times > 0 \/ remain > 0
          /\ rest' = Chunk
          /\ IF times > 0 THEN times' = times - 1 /\ UNCHANGED remain
                          ELSE remain' = 0 /\ UNCHANGED times
          /\ UNCHANGED gui
       \/ /\ times = 0 /\ remain = 0
          /\ gui' = "close"
          /\ UNCHANGED <<times, remain, rest>>
    /\ UNCHANGED <<size, stop, outcome, stdin, stdinOpen, stdout, childVars,
                   shown>>

NextWrite ==
    /\ gui = "write" /\ rest = 0
    /\ moved' = FALSE
    /\ \/ /\ times > 0
          /\ rest' = Chunk
          /\ times' = times - 1
          /\ UNCHANGED <<gui, remain>>
       \/ /\ times = 0 /\ remain > 0
          /\ rest' = remain
          /\ remain' = 0
          /\ UNCHANGED <<gui, times>>
       \/ /\ times = 0 /\ remain = 0
          /\ gui' = "close"
          /\ UNCHANGED <<times, remain, rest>>
    /\ UNCHANGED <<size, stop, outcome, stdin, stdinOpen, stdout, childVars,
                   shown>>

\* write(2) blocks while the pipe is full and somebody may read from it.
WriteByte ==
    /\ gui = "write" /\ rest > 0
    /\ child # "done"
    /\ stdin < PipeSize
    /\ stdin' = stdin + 1
    /\ rest' = rest - 1
    /\ moved' = TRUE
    /\ UNCHANGED <<gui, times, remain, size, stop, outcome, stdinOpen, stdout,
                   childVars, shown>>

\* The command has ended.  A write that has put some bytes in the pipe
\* returns how many, which nobody looks at; one that has not fails with
\* EPIPE, and with SIGPIPE ignored bproc_write returns FALSE.
WriteCut_mut ==                 \* EPIPE is not looked at, the write retried
    /\ gui = "write" /\ rest > 0
    /\ child = "done"
    /\ moved
    /\ rest' = 0
    /\ UNCHANGED <<gui, times, remain, moved, size, stop, outcome, stdin,
                   stdinOpen, stdout, childVars, shown>>

WriteCut ==
    /\ gui = "write" /\ rest > 0
    /\ child = "done"
    /\ rest' = 0
    /\ IF moved
         THEN UNCHANGED <<gui, times, remain>>
         ELSE gui' = "close" /\ times' = 0 /\ remain' = 0
    /\ UNCHANGED <<moved, size, stop, outcome, stdin, stdinOpen, stdout,
                   childVars, shown>>

\* bproc_write_close, and the task is started.
WriteClose_mut ==               \* bproc_write_close forgotten
    /\ gui = "close"
    /\ gui' = "loop"
    /\ UNCHANGED <<times, remain, rest, moved, size, stop, outcome, stdin,
                   stdinOpen, stdout, childVars, shown>>

WriteClose ==
    /\ gui = "close"
    /\ gui' = "loop"
    /\ stdinOpen' = FALSE
    /\ UNCHANGED <<times, remain, rest, moved, size, stop, outcome, stdin, stdout,
                   childVars, shown>>

\* The stop button, of the part of i_OnRun for a run under way.
OnStop ==
    /\ gui = "loop"
    /\ stop' = TRUE
    /\ UNCHANGED <<gui, times, remain, rest, moved, size, outcome, stdin,
                   stdinOpen, stdout, childVars, shown>>

\* i_run_update with something to read: output above READ_BUFFER asks to stop.
UpdateRead ==
    /\ gui = "loop"
    /\ ~stop
    /\ stdout > 0
    /\ LET n == IF stdout < Chunk THEN stdout ELSE Chunk
       IN  stdout' = stdout - n /\ shown' = shown + n
    /\ IF shown' > Chunk + 1 THEN stop' = TRUE ELSE UNCHANGED stop
    /\ UNCHANGED <<gui, times, remain, rest, moved, size, outcome, stdin,
                   stdinOpen, childVars>>

\* i_run_update at the end of the output, and i_run_end.
UpdateEof_mut ==                \* the end of the command taken for it
    /\ gui = "loop"
    /\ ~stop
    /\ child = "done"
    /\ gui' = "idle"
    /\ outcome' = "complete"
    /\ UNCHANGED <<times, remain, rest, moved, size, stop, stdin, stdinOpen,
                   stdout, childVars, shown>>

UpdateEof ==
    /\ gui = "loop"
    /\ ~stop
    /\ stdout = 0
    /\ child = "done"
    /\ gui' = "idle"
    /\ outcome' = "complete"
    /\ UNCHANGED <<times, remain, rest, moved, size, stop, stdin, stdinOpen,
                   stdout, childVars, shown>>

\* i_run_update after a stop, and i_run_end: the command is killed and what is
\* in the pipes is lost.
UpdateCancel ==
    /\ gui = "loop"
    /\ stop
    /\ gui' = "idle"
    /\ stop' = FALSE
    /\ outcome' = "cancel"
    /\ stdin' = 0 /\ stdout' = 0
    /\ child' = "done"
    /\ UNCHANGED <<times, remain, rest, moved, size, stdinOpen, command, held,
                   taken, printed, shown>>

-----------------------------------------------------------------------------
(* The command.                                                            *)

ChildRead ==
    /\ child = "read"
    /\ command # "sleep"
    /\ stdin > 0
    /\ stdin' = stdin - 1
    /\ taken' = taken + 1
    /\ IF command = "cat" THEN child' = "print" /\ held' = 1
                          ELSE UNCHANGED <<child, held>>
    /\ UNCHANGED <<guiVars, stdinOpen, stdout, command, printed, shown>>

\* read(2) returns 0: cat ends, jq prints n bytes.
ChildEof(n) ==
    /\ child = "read"
    /\ command # "sleep"
    /\ stdin = 0 /\ ~stdinOpen
    /\ IF command = "jq" THEN child' = "print" /\ held' = n
                         ELSE child' = "done" /\ UNCHANGED held
    /\ UNCHANGED <<guiVars, stdin, stdinOpen, stdout, command, taken, printed,
                   shown>>

ChildPrint ==
    /\ child = "print"
    /\ held > 0
    /\ stdout < PipeSize
    /\ stdout' = stdout + 1
    /\ held' = held - 1
    /\ printed' = printed + 1
    /\ child' = IF command = "cat" THEN "read" ELSE child
    /\ UNCHANGED <<guiVars, stdin, stdinOpen, command, taken, shown>>

ChildExit ==
    /\ \/ child = "read" /\ command \in {"head", "sleep"}
       \/ child = "print" /\ held = 0
    /\ child' = "done"
    /\ UNCHANGED <<guiVars, stdin, stdinOpen, stdout, command, held, taken,
                   printed, shown>>

Next ==
    \/ \E n \in 1..MaxSize, cmd \in Commands : OnRun(n, cmd)
    \/ NextWrite \/ WriteByte \/ WriteCut \/ WriteClose
    \/ OnStop \/ UpdateRead \/ UpdateEof \/ UpdateCancel
    \/ ChildRead \/ (\E n \in 0..MaxSize : ChildEof(n)) \/ ChildPrint \/ ChildExit

Spec == Init /\ [][Next]_vars

\* The GUI thread and a command that reads are scheduled; nobody makes the
\* user start a command, nor head or sleep end.
FairSpec ==
    /\ Spec
    /\ WF_vars(NextWrite \/ WriteByte \/ WriteCut \/ WriteClose
               \/ UpdateRead \/ UpdateEof \/ UpdateCancel)
    /\ WF_vars(ChildRead \/ (\E n \in 0..MaxSize : ChildEof(n)) \/ ChildPrint
               \/ (child = "print" /\ ChildExit))

-----------------------------------------------------------------------------
(* Properties.                                                             *)

\* A command that reads its input to the end, and is not killed before, gets
\* exactly the document: the chunks and the remainder make a whole.
FedIsWhole ==
    /\ outcome # "cancel"
    /\ \/ command = "cat" /\ child = "done"
       \/ command = "jq" /\ child \in {"print", "done"}
    => taken = size

\* When a run completes all that was printed is displayed, and is within the
\* limit: i_run_update reads on after the command has ended.
ShownIsPrinted ==
    outcome = "complete" => shown = printed /\ shown <= Chunk + 1

\* The GUI thread waits for the command and the command for the GUI thread.
Frozen ==
    /\ gui = "write" /\ rest > 0 /\ stdin = PipeSize
    /\ child = "print" /\ held > 0 /\ stdout = PipeSize

\* The two wait for each other only over a document that fills both pipes and
\* one byte more.
FreezeIsLarge == Frozen => size > 2 * PipeSize + 1

\* A command that reads and fits the pipes, or that ends, lets the GUI thread
\* go back to its loop.
Harmless ==
    \/ command = "jq"
    \/ command = "cat" /\ size <= 2 * PipeSize + 1
    \/ child = "done"

FeedEnds == gui = "write" /\ Harmless ~> gui = "loop"

\* What is displayed comes to an end when the command does.
RunEnds == gui = "loop" /\ command \in {"cat", "jq"} ~> gui = "idle"
=============================================================================
