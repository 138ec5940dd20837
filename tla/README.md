# Verification of kutes

kutes is a GTK window (through NAppGUI) around a shell: it runs a command line
typed by the user, shows its stdout and stderr, and when the output is a JSON
list of Kubernetes objects builds views of it: a table for pods, a text view for
other kinds, and a filter view whose own commands read the JSON on stdin. This
directory holds TLA+ models of that program, the TLC runs that check them and the
TLAPS proofs about them. Paths below are relative to the repository; `nappgui/`
stands for `src/vendor/nappgui_src/cache/src/`.

## Inventory

| component | state | operations | where it is modelled |
|---|---|---|---|
| command run (`kutes.c`, `osapp.c`, `bproc.c`) | `App.run_state`, `stop`, `proc`, `replace_line`, `dict`, the status label; the scheduler's task; the task thread; the child and its pipes | run, stop, replace, close; `i_run_update`, `i_run_end`; `i_scheduler_cycle`, `i_dispatch_task`; `bproc_exec/read/cancel/close/wait_exit` | `CommandRun`, promise in `RunStatus` |
| views and filter runs (`kutes.c`, `list.c`) | `App.doc`, `views`, popup, rows, `lock_view`, `Ftdata.run_state/stop/tot_len`, the same label | teardown, `populate_views`, popup selection, filter run/stop/update/end, close | `Workspace` |
| output buffer and text views (`kutes.c`, `ostext.c`) | `parse_buf`, `parse_size`, `out_len`, `err_len`, the displayed tails | `write_result`, nolimit, noshow, the parse decision | `OutputBuffer` |
| filter stdin feed (`list.c`, `bproc.c`) | bytes still to write, two pipes, the command | the write loop of `i_OnRun`, `i_run_update` | `FilterFeed` |
| search (`kutes.c` 397-558) | `pat_len`, `start_ptr`, `pos_cache`, `cur_idx`, `end_len` | type, focus, up/down, check box, and the runs that change the text | `Search`, text views in `TextViews` |
| replace mode (`kutes.c` 107-181) | `cur_line`, `cur_start`, `dict`, `pos_lens` | `replace_result`, the button, run and end of run | `ReplaceLines` |
| table view (`list.c` 320-760) | `display`, `expr`, `kttype`, `ele`, `hmask`, `invalid`, the ring of an item's members | add and remove a column, click a header, `tb_cache`, draw | `TableView` |
| ages (`list.c` 147-245) | none | `ktimegm`, `human_duration` | `Duration` |
| history (`hist.c`, `kutes.c` 60-100) | radix tree, file and stream buffer, text and cursor of the command line, `complete` | load, append, search, flush; type, delete, run | `History` |
| expression evaluator (`expr.c`), allocator, constants, window construction | - | - | not modelled: data in terms of an interpreter, or straight-line code that runs once |

### How they interact, and what is hard

* All handlers and the 10 ms timer run on **one GUI thread**, one callback at a
  time. The timer drives `i_scheduler_cycle`, which calls `i_run_update` and
  `i_run_end`. A **task thread** per run sleeps in `bproc_wait_exit` and reads
  `app->proc` through a pointer that the GUI thread closes, frees and clears: no
  lock orders the two. Three handlers close the process (`i_run_update` twice,
  `i_OnClose`), and `bproc_cancel` blocks the GUI thread in `waitpid`.
* A **command** may leave descendants that hold its streams, close its streams
  before it ends, ignore SIGHUP, or be killed before it has called `setsid`.
* The **filter** has its own process and task but shares the document, the
  status label, the popup and the scheduler with the main run. `lock_view` alone
  keeps them apart.
* `views`, `popup` and `vscroll` are **three lists kept in step by one count**.
* The filter's `i_OnRun` writes the **whole document before anything reads** the
  command's output.
* One counter, `out_len`, serves the buffer, the display limit and the parse
  limit with three different comparisons; the display is trimmed by
  *characters* while the output is counted in *bytes*.
* A **search** is five fields, of which each handler sets some, and pointers into
  a text that a run replaces. In **replace mode** each line that changes its length
  moves the ones below it.
* The **table** has a cache filled at the next draw, and parallel arrays of which
  some change with a column and others with the cache. Values of expressions are
  the document's own values, and yyjson links values through themselves.
* The **history** file is written through a buffer in two pieces a record, by a
  program that may be killed, and by every instance of it.

PROJECT.json lists every such hazard with its line and the property on guard.

## Modules

* **`RunStatus`** - the promise to the user, without threads, pipes or processes:
  "completed" only when all that was written has been displayed, "stopped" only
  after a stop, "unknown" never.
* **`CommandRun`** - one run with its two threads and its child. A callback is one
  action except where somebody can act in between: `bproc_cancel` (`WaitPid`) and
  `bproc_close` (`ClosePipes`, `FreeProc`, `NullProc`) are separate steps, and the
  task thread has one step for each access to `*proc` (`BgAssert`, `BgDeref`,
  `BgWhile`, `BgPoll`, `BgSleep`). A failed assertion or a bad dereference sets
  `fault` and ends the behaviour. `poll` may return at any time, because its
  `events` field is never initialised, and after the close it may or may not see
  POLLNVAL, depending on whether it was already asleep. Output is counted in chunks.
* **`Workspace`** - handlers as single steps, for what concerns the views: the
  teardown and its three lists, `add_list_to_layout` with nothing to show (it
  returns NULL, which is stored), `lock_view`, the filter's reads and limit. A pointer
  or an expression is evaluated inside `i_OnRun`, and leaves the label at "completed",
  "stopped" or "ready". The code has no label for JSON that cannot be written
  (`list.c:1146` has no else), and "running" would stay; that takes the default
  allocator out of memory (`Ftdata.alc` is NULL), which is not modelled.
* **`OutputBuffer`** - `write_result` by byte counts, `out_len` modulo its width.
  `stored` is the length of the prefix of `parse_buf` that is this run's output and
  `extent` how far `parse_buf` was ever written. `touched` is a history variable:
  what the user did to the text views while the run wrote to them.
* **`FilterFeed`** - the feed loop and the reads against pipes of bounded size and
  four kinds of command (prints as it reads; reads all first; may stop early;
  never reads).
* **`TextViews`** - the two text views and whether a run is under way, for:
* **`Search`** - the handlers of the search box. `Find` is `blib_strstr`. Pointers
  are offsets; what textview_get_text returned is the displayed text for as long
  as `start_ptr` is not NULL (`i_OnRun` sets it to NULL before anything changes).
  `fault` is "index" where `pos_cache` is read outside, "pointer" where the search
  would begin outside the text. `staleEnd` is a history variable: `end_len` is of
  an earlier search.
* **`ReplaceLines`** - `replace_result` one character a step, which is every way of
  cutting the output into reads. `heard` is the history of the lines of the run; a
  line that does not fit `cur_line`, or a word that does not fit a name, is the
  fault "overflow".
* **`TableView`** - columns, cache and draws. A column is a JSON pointer to a
  member or the expression that gives the same member: the first only reads, the
  second adds an array or an object to `wroot` and thereby cuts the item's ring
  (`cut`). `fault` is "delete" (a column removed that `kttype` does not have yet) or
  "time" (`human_duration` without a string).
* **`Duration`** - `ktimegm` and `human_duration`, transcribed in integers, and a
  calendar to compare them with. A time in the future is `Unknown`: the code
  converts a negative number to an unsigned one, which C leaves undefined.
* **`History`** - the file as cells (lengths and characters), the stream's buffer,
  the tree, and the command line with its completion. `Kill` may come between
  any two steps, `OtherQuits` is another instance. `cause` remembers what tore a
  record; `own` how much of the line the user typed or moved over. The command line
  is an `edit_multiline()` (`kutes.c:615`), so `Insert` and `Delete` are
  `i_OnBufferInsert` and `i_OnBufferDelete` (`nappgui/osgui/gtk/osedit.c:270`, `:280`). The latter
  passes INT32_MAX as the length, which `i_OnFilter` of `nappgui/gui/edit.c:91` replaces
  by the difference to the text it knew (`Shortened`): negative for a deletion, so
  `kutes.c:72` does clear the line. What `i_OnEditFilter` answers goes into the
  GtkTextBuffer in an idle callback, `i_update_select` (`UpdateSelect`). It is merged with the
  handler: it runs when no event is left, events before it find the text as typed, with
  the same characters before the cursor, and overwrite the pending answer. The one
  exception is left out: completion switched off, and a key pressed, before it runs.
* **`*_proofs`** - theorems about every module above; those about `Duration` are in
  `Table_proofs`, with the ones about `TableView`.

`CommandRun` implements `RunStatus` (`Promise == INSTANCE RunStatus WITH open <- ~Closing`).
The other modules look at the same program from one side each. Where one leaves
something out the other has it: `Workspace` takes from `CommandRun` that a task
stays in the scheduler until its run state is ENDED and that a run ends once its
process is closed; `OutputBuffer` takes the order of reads from it; `Search` and `ReplaceLines`
take from it that between `i_OnRun` and `i_run_end` only the run changes the text,
and from `OutputBuffer` what clicks into a view do to it.

An operator whose name ends in `_mut` is a deliberately wrong version of the
definition after it. PROJECT.json names, for each property, the one that breaks it.

## Runs

| run | what it shows | bounds |
|---|---|---|
| `command_safety` | four safety properties and the refinement of `RunStatus`, over all interleavings of callbacks, ticks, thread and child, with slow threads, failing forks and commands that ignore SIGHUP (101 014 states) | 2 chunks per stream: one read before and one after any other step |
| `command_live` | no fault before the window closes; a stop is answered; a drained run ends; a window closed without a run ends the program (58 418 states) | prompt task thread, obedient command, successful fork |
| `wait_race` | **violated**: the GUI thread can close the process before `bproc_wait_exit` has looked at it | 1 chunk |
| `workspace` | a filter has its data and document; documents, views, popup and rows in step; the label is true; a stop gives the controls back (2 097 states) | `ReadBuffer` 3 units, so a limit can be passed by one or two reads; 2 stale NULL entries |
| `output_safety` | copies stay in `parse_buf`, what is parsed is whole, displays are bounded and keep their tail (1.8 million states) | reads of 0-2 bytes, buffer of 5 without padding (the tightest), limits 2 and 3, output up to 8 bytes: two reallocations, and both limits passed by several reads |
| `feed` | a reading command gets exactly the document; a completed run displayed all; no freeze below two full pipes; the feed and the run end (3 269 states) | chunk 2, pipes of 2, documents of 1-7: no, one and three whole chunks, with and without remainder, both sides of 2 * 2 + 1 |
| `search` | the cache is the matches of the displayed text; a known end is true; Down goes to the next match; the only causes of a wild index or pointer (494 588 states) | texts up to 3 of 2 letters, patterns up to 2: matches that overlap, touch and repeat, three in a text |
| `replace` | positions cover the text; one line for each word, its latest (1.9 million states) | 3 lines, `cur_line` of 5 and names of 3: words of 0 to 2 characters, longer and shorter replacements of a first, middle and last line |
| `table` | cells, headers, popup and types stay with their columns; clicks on headers stay with theirs (of columns there are); the only causes of a failed draw (474 704 states) | 2 items of 2 members of 3 kinds, up to 2 columns: every order of adding, removing and drawing |
| `table_alias` | **violated**: an expression's value, added to a second object, cuts the document | 1 item |
| `history` | file and buffer hold what the completion knows through restarts, kills and a second instance; what is run was the user's (809 940 states) | a buffer of 3 cells, so that a length goes to the file without its command; lines up to 3, keys up to 2 fit the iterator, a file of 6 cells (what is still in the buffer included): two or three records, of both instances |
| `duration` | the second of the calendar; ages are true to an eighth (140 800 states) | a leap year, a leap century, the year after and before a leap year; all months 0-19 and days 0-39; both sides of every boundary of the units |

Larger numbers add nothing of a new kind: the models compare counters with each
other and with the limits, and the bounds put every counter on both sides of
every comparison. The theorems below remove the bounds from every safety property
and action property of the passing runs, and from the refinement.

`CHECK_DEADLOCK FALSE` is used for `FilterFeed`, where a frozen window is a reachable
state with no successor, for `TableView`, where a failed draw is one, and for
`History`, where a file that cannot be loaded is one. Elsewhere the end of the
program is a stuttering step (`Over`, `Exited`, or the fault), so any other deadlock
would be reported.

### Fairness

* The timer ticks for ever (`g_timeout_add`) and GTK returns to it after each
  callback: weak fairness of the GUI thread's own work.
* The task thread is an ordinary thread: weak fairness of its steps.
* `Workspace`: a tick handles a stop, an end and the destruction.
* `FilterFeed`: as above, and a command that waits for nobody but the pipes goes on.

Nothing is assumed of the user, and of a command only what its name says: no
property needs it to write, to end, or to close a stream. Liveness in `command_live`
is stated for `ThreadMayLag = FALSE`, `MayIgnoreHup = FALSE`: a thread slower than a
tick runs into the assertion of `osapp.c:180`, and a command that ignores SIGHUP
keeps the GUI thread in `waitpid` (both are behaviours of the code, and both are
in `command_safety`).

## Disagreements with the code's own statements

Each is a run whose property quotes an assertion or the documentation:

1. `bproc_wait_exit`, `cassert_no_null(*proc)` (`bproc.c:249`); the TODO above it
   suspects the race (`wait_race`).
2. yyjson's documentation calls it wrong to add a value to a second container
   (`API.md:913`); `tb_cache` does (`list.c:589`) (`table_alias`).

### Known failures that have no run of their own

The models reach these; the properties hold up to them or name them as causes.

* **A second thread for a task** (`osapp.c:180`): a tick finds the task still WAITING.
  `CommandRun`, under `ThreadMayLag`.
* **A list without a table** (`list.c:1281`): `add_list_to_layout` returns NULL for a
  list that is empty or begins with another kind. `Workspace` stores the NULL.
* **Window closed during a filter run** (`list.c:958`, "did not expect a process to be
  running"). `Workspace`, fault "filter_running".
* **A view with the focus is not trimmed** (`kutes.c:201`, although the text at
  `kutes.c:38` promises the last 512 KiB): `OutputBuffer`, `touched`.
* **A filter that prints as it reads** (`cat`) freezes the window over a document larger
  than both pipes (`list.c:1184`; the help at `list.c:132` warns of commands that do
  not read). `FilterFeed`; `FreezeIsLarge` says when.
* **Search**: `end_len` is never reset. Up after a new first match indexes past
  `pos_cache`, or a smaller old end hides matches. A pattern typed into during a
  run leaves `pat_len` wrong, and `start_ptr` is moved by it. `Search`, faults "index"
  and "pointer"; `FaultHasCause` shows that nothing else leads to them. A selection
  counts characters and the cache bytes, which differ for text that is not ASCII.
* **Replace mode**: half a line at the end of a run is carried into the next; `cur_line`
  (256) and `name` (80) overflow; a view with the focus takes lines where the cursor is.
  `ReplaceLines`: `carried`, "overflow", `touched`.
* **History**: killed between a length and its command, every later load fails
  `hist.c:39`, also after another instance wrote in between (`cause`); a key longer
  than the 128 bytes inside an iterator makes rax reallocate a piece of it
  ("realloc"), as `history_search` copies the iterator by value (`hist.c:64`). With
  completion on, a deletion at the start clears the line (`kutes.c:72`) and an edit in
  the middle drops the rest.
* **Table**: a column removed before its first draw (`list.c:385`, "delete"); a time
  that the first item has and another lacks (`list.c:650`, "time"); header bits that
  do not move when a column goes (`raw` is emptied then); a click on the header of a
  column just removed with the keyboard, while the mouse did not move
  (`nappgui/gui/tableview.c:1220`), sets a bit of the next column added (`raw` is emptied
  as well).
* **Ages**: a time in the future has no defined age (`list.c:197`).

* **Exit with a task** (`osapp.c:112`): the window closed during a run. `CommandRun`
  ends in `fault = "tasks_at_exit"`.
* **Failed pipe or fork** (`kutes.c:357`, `bproc.c:467`): `i_OnRun` passes NULL on.
  `CommandRun` ends in `fault = "exec_null"`. The filter does the same (`list.c:1175`, then
  `list.c:1182`): `Workspace.FilterRun` and `FilterFeed` begin after a fork that succeeded, as
  the program ends at the other kind.
* **4 GiB of output**: `out_len` wraps around and the limits start again.
  `OutputBuffer` has the arithmetic (`Wrap`), and its theorems assume `MaxTotal < Word`.
* **No room for the padding, or old bytes in it** (`yyjson.h:771`): with nolimit the
  output may end at the last byte of `parse_buf` (`kutes.c:185`), and after a longer run
  its bytes follow the shorter document (`kutes.c:193`).

## Proofs

`tlapm` checks every step; nothing is assumed beyond the named assumptions on
constants. Parameters (chunk and pipe sizes, limits, bounds on output) are
arbitrary.

**`CommandRun_proofs`** - `IInv` is the type invariant and five parts, none inductive
without the others. `ProcInv`: where the GUI thread is decides whether `app->proc`
is live and whether the pipes are open. `TaskInv`: where the task thread is decides
the state of the task, and it is past its loop only once the pipes are closed,
which is why `i_run_end` never answers "unknown" although the two threads share
nothing but the pointer. `ResetInv`: `controls` is true exactly when no run is under
way, and what the controls guard (replace mode, the dictionary, the stop request)
therefore belongs to one run. `OutputInv`: end of file on both streams, once seen,
is final. `LabelInv` ties the label to the run state. Each invariant of
`command_safety` is a corollary, and `Refinement` proves `Spec => Promise!Spec`: no
bound on the output and no switch matters.
`FaultCauses` says for all switches what the program fails on before the window is closed
(a failed fork, a late task thread); `NoFaultBeforeClose`, which `command_live` checks,
needs only that these two do not happen, and holds for a command that ignores SIGHUP as
well.

**`OutputBuffer_proofs`** - `BufferInv` (the counters are what was printed, and the
buffer holds one read more than any copy that is not preceded by a reallocation) and
`StoredInv` (while copying goes on the buffer is the output). The key is that
`nolimit` is the same for all reads of a run, as the box is disabled: `WritesFit`
would fail by one reallocation otherwise (mutant `NolimitEnabled_mut`). The text
views are independent of the buffer: `DisplayInv` for any character width,
`DisplayKeepsTail` inductive by itself for one byte per character. All but
`TypeCorrect` assume less than `Word` bytes of output.

**`FilterFeed_proofs`** - bytes are counted: not yet written, in the pipe, and read
make the document (`InputInv`); printed is what is in the other pipe and what is
displayed (`OutputInv`); what is displayed exceeds the limit only in a run about to
be stopped (`LimitInv`). At a freeze both pipes are full, `cat` holds one byte and
one at least is unwritten, hence `FreezeIsLarge`.

**`Workspace_proofs`** - `IInv` adds to the three invariants that the selected element is in
the popup (`SelectedIsShown`), that the views are locked exactly while a filter runs
and that the view shown is then the filter's (`HeldByFilter`), and that a total above
the limit has set the stop (`LimitStops`). The
key is the shape of `app->views`: a block of NULLs, as long as the lists without a
table that were ever shown, followed by one entry for each row, so that popping one
view per popup element pops exactly the views of the rows. `KeepsViews` states
once what leaves that alone.

**`Search_proofs`** - `Find` is characterised first (`LeastNumber` for the least place,
then `FindRange`), and used only through that. The invariant adds to
`CacheIsMatches` that no search is recorded while a run is under way (`Quiet`), that
what is selected is the cached match it should be (`Selected`), and that a known end
is the number of matches found, after which nothing follows (`Ended`, except while
`staleEnd` records that the number is of an earlier search, which the code never resets).
A match ends inside the text, so `start_ptr` is too as long as the pattern was counted
(`PointerInText`), which is what excludes a wild pointer. Texts, patterns and the
width of `pat_len` are arbitrary.

**`ReplaceLines_proofs`** - `LinesTile` speaks of neighbours, but a replacement moves all
lines below the one replaced, so the invariant adds that every line ends before any
later one begins (`Ordered`; two lines are compared directly, which needs no
induction), that the text ends with the last line (`Covered`), and that there are
lines only in a run in replace mode (`NoLinesBetween`). A replaced text is described
once by `SpliceProperties` (what it leaves before, puts in and moves); each line is then
in one of the three parts. `Ordered` also keeps positions from going below zero, for
any `diff`. Sizes of lines, words and runs are arbitrary.

`HeardInv` ties the lines to what the run has printed, by word and not by place:
`Numbered` says that `dict` numbers the words by the lines that were the first with
theirs (so their number is that of the lines displayed), `Latest` that where `dict` has
a word the last line heard with it is displayed. A line that ends either becomes the
latest of its word, at its place (`ReplacedDisplay`: the other places keep their text
although it has moved), or the first, at a new one (`LatestNew`). The order among the
places, which `TextIsLatest` states with CHOOSE, comes in once, in `HeardIsLatest`.

**`History_proofs`** - a load is a recursive function over the cells of a file. That the
recursion is sound (`ReadingIs`), that it reads `f \o g` as `f` and then `g` when `f` is
whole (`LoadedConcat`), and what it can read of a torn file (`PiecesReadable`) is shown by
induction in set form (`Induction`: a set of numbers with 0 and every successor has all).
`FileIsTree` then holds because everything that is appended is a whole record or is
cut off by a kill, which `cause` remembers. What made the invariant hard is `TypeOK`: the
completion proposes what a load read, also from a file that is torn, so the length of a
proposed line rests on the cells of such a file. `IsPieces` says what they can be: a
length is followed by as many characters, unless it is followed by another length or by
nothing. `Readable` is what a load makes of that: a key that begins with a character
is a line. `Before`, the order of the tree, is shown to be total, so that the iterator's
next key exists. `QuitKeepsAll` is the action property: `Quit` leaves in the file what
was in the file and the buffer.

**`Table_proofs`** - `CellsInv` and `TypesInv` bound what a cell and a type may say, by
`Says`: what the item says at the member of the column, or nothing if a value of the
item was cut off. Cells are bound while the cache is valid, types always: between two
draws columns come and go, and a type is removed with its column or stays with it.
`CellIsOfItsColumn` and `FaultHasCause` are weaker than that and not inductive: the cause
of a failed draw needs the types of an earlier one. Filling the cache needs the
recursion over the columns (`Iteration`, `CutByIs`, `CutByGrows`), and reading it the place
`FlattenSeq` gives a cell (`Flattened`). `RawInv` adds to `RawAsAsked` that set bits are
those of existing columns, without which the next column added would come with a bit.
The numbers of items, members and columns are arbitrary.

The ages are arithmetic. `AgeIsAge` goes through one branch of `human_duration` at a
time, with lemmas on quotients and remainders; `AgeIsTrue` follows for every set of
times and clocks. `KTimeGmIsInstant`: `days_from_epoch` counts 400-year eras and
lets the year begin in March; the reference counts leap years as the cardinality of a set
and adds up the lengths of the months. They agree because that cardinality is
`LeapDays(n) - 477` (`LeapYears`, by induction), because five months from March on are 153
days (`MonthsAre`), and because the carry of `ktimegm` is division by 12 (`CarryIs`). It
holds from 1970 on; the pattern of the table accepts 2000 to 2099.

Only model-checked: liveness (`AnswersStop`, `DrainedRunEnds`, `CloseExits`,
`StopIsAnswered`, `FeedEnds`, `RunEnds`), whose proofs need ENABLED of the actions that
are fair, and the runs that are violated.

## Not modelled

* The expression interpreter (`expr.c`): its handles to values and iterators are garbage
  collected by Boron, whose collector is not part of this code. `TableView` has what
  an expression's value does to the document.
* What the JSON document says, beyond members and their types; column widths, the
  frozen column and texts longer than a cell; `onQuery_run`, which only reads.
* The nodes of the radix tree: `History` has the set of its keys and their order.
* The GTK and NAppGUI widgets, beyond what `textview_select` and
  `textview_del_select` do to the display.
* `bproc_cancel` in `Workspace` and `FilterFeed` returns at once; its wait is in
  `CommandRun`.
* A child killed before `setsid` is in `CommandRun` (the signal reaches nobody and
  the run ends as stopped); that it runs on as an orphan breaks no promise that
  the repository states.
* Memory that is only lost (`Ftdata.alc` is never set) and zombies left by
  `waitpid(WNOHANG)`.

## Plan

Written, in this order: `RunStatus`, `CommandRun`, `Workspace`, `OutputBuffer`,
`FilterFeed`, `Search`, `ReplaceLines`, `History`, `TableView`, `Duration`, and the
proofs about all of them. What is left:

1. A common abstract specification of a run (main and filter), implemented by
   `CommandRun` and by `FilterFeed`.
2. The safety half of the liveness properties: that a step which is due stays due until
   it is taken (no step of another actor disables it), which needs no ENABLED.
