# abax: models, model checking and proofs

This directory holds TLA+ modules for the core of abax, a spreadsheet and data
workstation in Python: the recalculation engine with its dynamic arrays, the
edits that move cells and shift references, the undo history, the document of
the main window with its background work, the worker processes that run user
code, the terminal panel, the editor for text terminals, and the journal of the
runtime state. TLC checks them on small instances; TLAPS proves the main results
for every value of the constants.

## Inventory of the system

| Component | Code | State | Operations | What is hard, what must hold |
|---|---|---|---|---|
| Undo history | `core/undo.py`, `engine/document.py` | two stacks of (snapshot, label), last key and time of a burst | checkpoint, undo, redo, clear | bursts that coalesce, the limit, redo after a new edit; undo and redo must walk one line of states |
| Recalculation | `core/sheet.py`, `core/evaluator.py`, `core/workbook.py` | cells, value cache and `_computing` of each sheet | get_value, set_cell, add, rename and remove sheet, recalculate | recursion through other sheets, cycles, Python's recursion limit, caches that outlive their sources; a value must agree with the values it was computed from, whatever was read first |
| Dynamic arrays | `core/spill.py`, `core/sheet.py` | spill map, anchors, blocked spills | the spill pass, found arrays | the pass reads cells that it has yet to fill; who gets a contested cell must not depend on the order of reading |
| Structural edits, shifting | `core/structure.py`, `core/translate.py`, `core/sheet.py` | cells, styles, rules and names by position | insert and delete lines, copy a formula | off-by-one at the ends of ranges; references from other sheets; what moves along |
| Defined names | `core/names.py` | registry with a version | define, rename, remove, shift | names follow their lines |
| Document lifecycle | `gui/mixin_io.py`, `engine/document.py`, `workers.py` | current document, path, dirty flag, busy flag, callback | new, open, save | results that arrive after the document changed; the window must become usable again |
| Editing commands, tabs | `gui/mixin_document.py` | the same | edits, copy, paste, fill, sort, styles, rules, sheets | some take a checkpoint and some do not; texts and styles live apart |
| Python console, macros | `gui/console/pyconsole.py`, `gui/mixin_macros.py` | thread, command under way, events | run, answer, interrupt, close | the answer replaces the workbook |
| Worker and bridge | `gui/console/console_bridge.py`, `console_worker.py` | one process for each bridge, its pipes | spawn, round trip, kill, respawn | processes die at any point; code may hang or write to the pipe |
| Terminal panel | `core/ptyterm.py`, `gui/console/ptyterminal.py` | pseudo-terminal, reader thread, screen, timer | start, read, write, paint, close | a descriptor closed under its reader, full buffers, last words |
| Runtime state | `state.py` | dictionary, its file, a journal | set, flush, load | crash or SIGTERM between any two steps |
| Terminal interface | `tui/` | cursor, dirty flag, recorder, clip | keys and commands | no undo: the dirty flag and the recording are all there is |
| Macros, recorder | `macros.py`, `recorder.py` | recorded actions | record, replay | collapsing of edits, relative replay |
| Clipboard history | `core/clipboard.py` | list with pins | add, pin, remove, clear | eviction |
| Settings | `settings.py` | one file | load, save | non-atomic write |
| Optional dependencies | `autodeps.py` | attempted packages, marker files | ensure | concurrent claims, failed installs |
| Calculators | `core/calc/` | stacks, registers, word size | keys | stack lift, carry and overflow |
| Everything else | parser, function library, science, file formats, dialogs, themes, entry points | | | pure functions, numerics, serialisation, layout |

How they interact. The GUI thread owns the workbook. Every change goes through
`Sheet.set_cell` or replaces the sheets (`Workbook.load_envelope`, from undo,
redo and the console); the grid reads through `Sheet.get_value`, which computes
and caches. Commands call `Document.checkpoint` before they change anything (not
all do). An open or a save runs in a worker thread on data of its own and posts
its result to the GUI's event queue, where the callback registered in
`_io_on_success` runs. A console command sends the workbook as an envelope to a
process and loads the envelope that comes back; a macro does the same while the
window waits. The terminal panel shares the window's thread and nothing else. The
terminal editor is a program of its own over the same sheet, without undo. The
state journal is separate and is written by the runner and by signal handlers.

`PROJECT.json` lists the components with their status, and the hazards of this
code at their lines with the properties that cover them.

## Modules

### UndoTimeline and UndoStack

`UndoTimeline` is the abstract specification of an undo history: one line of
states with a cursor. `UndoStack` is `core/undo.py`: `undo` and `redo` are the
lists of (state, label) pairs, the top last; `lastKey` is `_last_key`; `elapsed`
is `now - _last_time`, saturated at the window, since the code only compares
that difference. Time passes in `Tick`. `Edit` follows the protocol that the
module's docstring asks of its caller (checkpoint before the mutation), `Undo`
and `Redo` are `Document.undo` and `Document.redo`, `Clear` is `clear`.

The refinement mapping reads the undo stack, the live state and the reversed
redo stack as one line, with the labels as the names of its steps
(`LineOf`, `TagsOf`).

### SheetCalc

The recursion `get_value` → `_compute_formula` → `evaluate` → `_resolve` →
`get_value` is the variable `stack`: one frame per formula under computation,
with the values of the references it has read. A step reads one reference
(`ReadMissing`, `ReadReady`, `ReadCircular`), enters a formula (`Enter`,
`Overflow`) or leaves one (`Leave`). `Read` is a call from outside, by a repaint
or by `recalculate()`, in any order; `Edit`, `AddSheet`, `RenameSheet`,
`RemoveSheet`, `Recalculate` and `RecalculateSheet` are the operations of the
sheet and the workbook, which wait until no computation runs, because
everything happens in one thread. `book` is the list of sheets, `title`, `content` and
`cache` are the attributes of the sheet objects.

Formulas are reduced to what evaluation tells apart: a reference, a strict
operator (`&`, errors of the left operand first), a lazy function (`IFERROR`), a
volatile one (`RAND`) and a text that does not parse. The other operators and
functions evaluate their references like one of these. Array formulas, defined
names, structural edits and bulk loads are left out; without anchors the spill
pass does nothing. `MaxNesting` stands for Python's recursion limit, counted in
formulas; in the code the number of stack frames per formula depends on the
formula.

### SpillSheet

The spill pass of `core/sheet.py` on one sheet. `owner` is `_spill_anchor`,
`grids` is `_spill_grid`, `blocked` is `_spill_error`, `anchors` is `_anchor_cells`,
`dirty` is `_spill_dirty`, `cache` is `_value_cache`. The stack holds the calls in
progress: a read (`ask`), the computation of a formula (`value`), the pass
(`pass`) and the formula that the pass computes (`anchor`). A read that finds the
map dirty starts a pass (`StartPass`), and the pass reads cells like everybody
else, which finds `_spilling` set. One call of `get_value` or `_resolve_spill` starts
one pass at most (`synced`): when the pass itself has made the map dirty again,
the call goes on with it as it is. `Deliver` includes the array that comes from a
formula that `_is_array_candidate` missed (kind `hidden`), which dirties the map
in the middle of a read. `Register` is `_register_spill`. Of the array
functions one makes values, one filters those of two cells, and `SUM(A1#)` reads
a spill; the rest differs in the values only. The filter is `FILTER` with a
comparison as its condition: an error in its source is true, as any error is, and
stands in the list that is spilled; the sum returns the first error that it meets.
### RefShift and SheetEdits

`RefShift` holds the operators of `core/structure.py` and `core/translate.py` on
parsed references: `ShiftCoord`, the clamping of a range's ends, `AdjustOperand`
for a formula that stays, `ShiftOperand` for one that is copied.

`SheetEdits` is what `_restructure` does with them to cells, styles, rules and
names of all sheets (`Restructure`), and the other edits of the GUI that move
things: copy, cut, relative paste, fill, sort, clear, styles, rules, names.
Beside the positions that the code keeps, the model gives every line of a sheet
an identity and every formula, rule and name the set of lines it was written for
(`means`, `owed`, `namesOwed`). `rules` has two lists for each sheet, `cond_rules`
and `validations`: `ClearFormats` empties the one, `ClearChecks` takes from the
other what the selection meets. These history variables are the reference
definition: inserted lines join a range when they come between two of its
lines, deleted ones leave it.

Operands are records, and a formula of the model has one. Not in the model:
scanning of the formula's text, duplicated sheets, number formats (moved like
styles).

### ConsoleBridge

Two bridges, of the console and of macros, each with at most one process.
`call[b]` is the program counter of `_roundtrip` (`check`, `spawn`, `write`, `read`,
`failed`, `answer`) in the console's thread or in the window; `workers` are the
processes with their pipes, alive, killed (the signal is on its way) or dead;
`events` is what the thread has posted to the window. The workbook is the set of
numbered changes, so that an answer shows which command it came from and what
it overwrites. A worker may finish, raise, hang or die. Code that it runs, and a
program that the code starts (`child`, which inherits the worker's pipes and lives
on after it), may write to the pipe behind the protocol's back at any time
(`Stray`). What they write is a scrap: a short one makes the header of a frame
incomplete, since the pipe is unbuffered, and the bridge drops the worker, dead or
not (`ReadNothing`, `Fail`); a longer one is taken for the length of a frame that
never comes (`Garbled`). A read meets the end of the stream only when the worker
and its program have ended, and so does the reading of stderr in `_dead_reason`
(`ErrorsWithheld`). `Close` and `CloseBridges` are `_shutdown` with its wait of three seconds,
taken to be long enough for the thread to get as far as reading.

Not in the model: the watchdog, since no caller passes a timeout; `InProcessBridge`,
which has no process; the refusal when a strict sandbox is not available; Windows,
where a Job Object ends the worker's programs with it; programs that read the
worker's stdin; a scrap that gets into the middle of a large answer, at which
`json.loads` raises. A bridge that drops a living worker leaves its pipes open:
`subprocess` keeps a process that nobody has waited for.

### PtyTerminal

The terminal panel, POSIX half. The processes of the terminal write and read;
the reader thread is `_read_loop_posix` step by step (`Top`, select with its
time-out, the look at the process, read, feed); the window starts, paints from a
timer, sends keys and closes. `fd` says what the number of the descriptor names:
after `close()` another thread may open a file or a pipe under it, and an empty
pipe holds the reader that has got as far as reading. The pseudo-terminal
holds `Room` chunks in each direction, and who finds it full waits. Output never
has to end: after `MaxOutput` numbered chunks it goes on with chunks that are
counted while they wait (`more`). `FeedFails` is an exception of the emulator, which
ends the thread.

### TuiEditor

The editor for text terminals: one column of cells, the number formats (as the
set of rows that have one), the dirty flag, the file, the recorder, the last clip
and the clipboard history. An action is a command or a key that changes
something, in the order of `run_command` and `dispatch_normal`. Which commands
tell the recorder is as in the code: those that write through `on_set` do
(`Puts`), `:py`, `:macro`, replay and the calculator's store do not
(`EditUnrecorded`). `Edit` marks the document after its writes; `EditCutShort` is a
`:fill series` that raises in one column when it has written others, and returns
without. `base`, `exact` and `untold` are history variables: the
sheet when the recording began, whether every write since went to the recorder,
and whether a command that failed half way (`:py`, `:fill series`) has changed
the sheet unmarked.

### StateJournal

`state.py` step by step: `set` is `Set`, `Journal` (or `JournalFails`), `Apply`,
`Unlink`; `flush` is `FlushOpens`, `FlushEnds`; `load` is `Replay`,
`LoadUnlinks`, `LoadMain`. `flush` may start between any two steps of the others
(SIGTERM handler, atexit), `Stop` may come anywhere. A file that is being
rewritten is `Torn` until the write ends, which to `load` is the same as no file.

### GuiDocument

The main window's document, composed with `UndoStack` (its variables are shared,
its actions `Checkpoint`, `Undo`, `Redo` and `Wipe` are used as they are). `live`
is the workbook, as a document identity and a body. An open or save is a member
of `jobs` that goes from `run` (the worker thread) through `result` or `error`
to `finished`, each phase handled by its callback (`OnResult`, `OnError`,
`OnDone`). `RunIo` is `_run_io` with its busy guard. The console holds the
workbook it was sent until `Answer` or `Crash`; `OnReply` loads what came back.
Commands are reduced to classes: cell edits with a coalescing key (`CommitCell`,
which the disabled widgets refuse while busy), menu commands with a checkpoint
that does not coalesce (`Command`), changes without a checkpoint
(`Mutate`), deletion of one particular sheet (`DeleteSheet`), undo, redo.
Saving means the native format, whose write is atomic (temporary file, rename).

## Model checking

Runs that must pass:

| Run | Instance | What it shows |
|---|---|---|
| `undo` | 3 states, 2 labels, 1 key, depth 3, window 2 | `BurstHasNoRedo`, `HistoryBounded`, `BurstCanBeUndone`; `ImplementsTimeline`: undo and redo are inverse walks along one line |
| `calc_local` | 1 sheet, 3 cells, 8 contents, nesting 3 | `CacheIsConsistent`, `CircMeansCycle`, `ReadReturns` for every workbook of that size, every order of reads and every moment of a computation |
| `calc_cross` | 3 sheet objects, 2 names, 1 cell each, 6 contents, nesting 2 | `CacheIsConsistent` and `ReadingIsStable` with references between sheets, missing and renamed sheets, a volatile formula and the recursion limit |
| `spill` | 2 by 2 cells, 7 contents, 3 cells filled (about 900,000 states) | `SpillsAreDisjoint`, `FirstAnchorWins`, `OrderlyValuesAgree`, `ReadReturns` |
| `structure` | 2 sheets of 3 rows and 2 columns, 3 operands, 4 commands (about 1,060,000 states) | `FormulasFollow`, `RulesFollow`, `NamesFollow`, `StylesStayWithText`, `CopiesKeepForm` |
| `state` | 2 keys, 2 values | `NothingInvented`, `JournalIsCurrent` over any number of crashes, signals and failed writes |
| `document` | 2 documents, 2 bodies, 1 file, depth 1 | `SavedUnlessTouched`, `HistoryStaysInDocument`, `ResultMeetsCallback`, `BusyEnds` |
| `console` | 2 edits and commands together, stray output on both pipes (about 244,000 states) | `AnswersMatch`, `NoOrphans`, `LossesOverlap`, `CommandsEnd` |
| `terminal` | 2 numbered chunks of output and any number after them, 3 keys, buffers of 2, a foreign file or pipe of 2 chunks (about 163,000 states) | `TakesWhatWasWritten`, `KeysGetThrough`, `OutputShown`, `ReaderEnds` |
| `tui` | 2 rows, 2 texts, history of 2, 4 commands (about 1,050,000 states) | `ReplayReproduces`, `CleanMeansSaved` |

The bounds. A history of three steps has a full stack, an entry that falls off,
and a redo stack beside a partly undone one. The code has one coalescing key, so
one is enough. Three cells give chains, diamonds, self-references and cycles of
length two and three, and a cell that leads into a cycle without being on it.
In `calc_local` the recursion limit lies beyond the longest chain, in
`calc_cross` it does not. Three sheet objects allow one sheet in the workbook, one to come,
and two of the same name. Two by two cells are the least where two arrays contend
for an empty cell and a third formula reads it. Four commands write a formula,
delete within its range, copy it and insert again, or sort after a style was
set; three rows let a deletion take one end of a range, the other, both or
the middle, and the second sheet refers to the first. Two changes are a
command and an edit that overlaps it, or a command that leaves something in a pipe
and the one that comes after; that a third adds nothing is proved for the three
safety properties. Buffers of two fill in both directions. Four commands are two edits
between the start of a recording and what ends it; two rows let fill, paste and
sort move cells both ways. A key and a value beside the ones at hand show a
value that moved to the wrong key. Two documents are one that is replaced and
the one that replaces it; one file is enough, since the properties concern a file
and a document that are or are not its own. The bounds `MaxDocs`, `MaxDepth`,
`Window`, `MaxNesting`, `MaxFilled`, `MaxSteps`, `MaxChanges`, `MaxOutput`,
`MaxKeys`, `Room`, `OtherSize`, `Capacity` and `MaxCommands` are constants; the
document bound is guarded in the operator `Room` of
`GuiDocument`, where it cannot block the event loop.

Symmetry is used for sheet objects in `calc_cross`, which checks no liveness.

Deadlock is checked except where the system may stop: `structure` and `tui` end
with their bound on commands (`tui` also when the editor quits), `console` when
the window has closed, `terminal` when everything has been closed or the bound
on keys is used up.

Fairness. `ReadReturns` assumes weak fairness of `Compute` in `SheetCalc` and of
`Work` in `SpillSheet`: a call, once made, runs on. `BusyEnds` assumes weak
fairness of `Worker` and `EventLoop`: threads run and Qt delivers what was posted.
`CommandsEnd` assumes weak fairness of the window's handlers, of each bridge's
thread, of `Emit` and of each process (one that was killed gets to its end);
nothing makes a process die, a program that user code has started end, or the
user act. Code that hangs, output that garbles the pipe of a living worker and a
program that holds a dead one's pipes are the exceptions that `HeldUp` names. The
terminal's liveness assumes weak fairness of the reader thread and of the window's
timer and paint, and of a shell that reads its input; nothing makes anybody
write, and nobody has to stop.

Runs that show a disagreement between the code and what it or its documentation says:

| Run | The statement | What the code does |
|---|---|---|
| `document_saved` | `gui-guide.md:61` "the saved/unsaved state" | a change made while a save runs is marked as saved |
| `spill_feed` | `tests/test_spill.py:98-102`: spilled cells feed aggregates | a scalar formula that an earlier array reads during the spill pass is computed from cells not yet filled, and stays so: A1 `=SORT(C1:C1)`, B1 `=SEQUENCE(3)`, C1 `=SUM(B1:B3)` show 1 in C1 |

Nine more promises that the code does not keep are stated in the modules without
a run of their own; adding the definition as an INVARIANT or PROPERTY to the
module's configuration gives TLC's counterexample.

| Definition | The statement | What the code does |
|---|---|---|
| `SheetCalc!RecalculateHeals` | `sheet.py:660` "Force a full recompute" | `Workbook.recalculate` clears and evaluates sheet by sheet, so a formula is computed from another sheet's old value |
| `SheetCalc!MissingSheetIsRef` | `tests/test_cross_sheet.py:83`: a missing sheet is `#REF!` | removing or renaming a sheet clears no cache; the old value stays until the next edit |
| `StateJournal!JournaledSetSurvives` | `state.py:33` "survives a crash between the two" | `load()` replaces what it replayed by the older file |
| `StateJournal!SavedKeysSurvive` | `state.py:1` "survives crashes" | the state file is rewritten in place, also by a signal that comes before `load()` has read it |
| `GuiDocument!ConsoleAnswersItsDocument` | `gui-guide.md:450-451`: the workbook goes to the worker "and back" | the answer is loaded into whatever document is shown |
| `GuiDocument!DeletedSheetStaysDeleted` | `gui-guide.md:316-318`: not reversible | an older checkpoint holds the deleted sheet, and Ctrl+Z restores it |
| `ConsoleBridge!InterruptFrees` | `console_bridge.py:170-172` "A blocked execute() then returns a crashed response (its read hits EOF)", `gui-guide.md:449-450` | the worker alone is killed; a program that the command has started keeps the pipe open, and the read goes on waiting |
| `ConsoleBridge!ExitedMeansDead` | `console_bridge.py:107-109`, `:146` "the console process exited" | a few stray bytes make the header of a frame short, and a living worker is reported as exited, dropped and never stopped |
| `PtyTerminal!ReadsUntilExit` | `ptyterm.py:157` "Read PTY bytes until the child exits" | a job that the shell has left behind and that goes on writing keeps the reader; the child is looked at only after a tenth of a second of silence |

Limits of the code that the properties state as exceptions, or that lie outside
the modules, met while modelling:

- A formula on a cycle may show an ordinary value, because `IFERROR` catches the
  `#CIRC!` of the reference that closes the cycle (`CacheIsConsistent` exempts
  cells that are on a cycle or lead to one). A chain beyond Python's recursion
  limit shows `#CIRC!` without a cycle (`overflowed`).
- Which value an array shows that was found by evaluation only depends on what was
  read first; a `FILTER` over the spill of a later anchor shows `#CALC!`
  (`Orderly` exempts both).
- `adjust_formula` and `shift_formula` put the tokens together again without the
  `#` of a spill reference, so a structural edit or a paste makes `SUM(A1#)` into
  `SUM(A1)` (`structure.py:190-233`, `translate.py:80-87`), as the operators of
  `RefShift` say. A range given backwards (`E5:E1`, or turned round by a copy)
  becomes `#REF!` when lines of its sheet are deleted (`structure.py:168-180`).
  The properties hold for every operand, and exempt these: `FormulasFollow` by
  `inOrder`, `CopiesKeepForm` the spill references, `NamesFollow` the backward
  ranges by `strayed`. The instance writes neither kind; the proofs cover both.
- An unqualified name shifts with edits of every sheet (`strayed` again).
- A paste in the GUI prefers the internal clip whatever the system's clipboard
  holds (`mixin_document.py:374`, where `gui-guide.md:334-335` speaks of the
  clipboard). A sort in the GUI is not recorded; one in the terminal editor
  moves no formats.
- Output of a program that user code starts goes into the console's pipe and holds
  the console up until it is interrupted (`Garbled`), or for as long as that
  program lives; in the window, where macros wait, nothing interrupts. A worker
  that is dropped at a short scrap goes on running, and outlives the window
  (`NoOrphans` exempts it, `ExitedMeansDead` shows it). The answer of a console
  command replaces what was edited in the grid meanwhile (`LossesOverlap` says
  that it is not more than that).
- The last words of a shell may be missed (`OutputShown` says until when they are
  not). An exception of the emulator ends the reader (`Choked` in `KeysGetThrough` and
  `OutputShown`); a pipe that takes the closed descriptor's number may hold it
  (`ReaderEnds`). The view reads cells and cursor under two acquisitions of the lock. A
  failed start leaves the master descriptor open (`ptyterm.py:134-152`).
- Several errors end the terminal editor without saving (`Quit` stands for them:
  a bad destination of `:paste`, a path that `:rec save` cannot write, a domain
  error of the calculator, a macro that raises); a `:py` or a
  `:fill series` that raises leaves its changes unmarked (`untold`); a save as CSV loses formats and clears the mark
  (the model's file is the native one).

Each property of a passing run has a mutant: an operator beside the one it
mutates, marked as such, under which the run finds the property violated.

## Proofs

`UndoStackProofs` proves about `UndoStack`, from `StackAssumption` alone (the
depth and the window are positive, no key is the missing key), for all sets of
states, labels and keys:

- `HistoryInvariant`: `Spec => []IInv`. `IInv` joins the types with
  `BurstHasNoRedo`, `BurstCanBeUndone` and `HistoryBounded`. The bound needs the
  whole: redo keeps it because it moves an entry from one stack to the other,
  and a burst because it pushes nothing.
- `Refinement`: `Spec => ImplementsTimeline`. Each action maps to one action of
  the timeline or to a stutter: a checkpointed edit to `Record`, an edit of a
  burst to `Amend` (possible only because of `BurstHasNoRedo`), undo and redo to
  `Back` and `Forward`, `Clear` to `Forget`. The lemmas compute the line and the
  tags of a pushed and a popped stack.

`SheetCalcProofs` proves about `SheetCalc`, from `CalcAssumption` alone (inputs are
well formed, error values are not texts, the recursion limit is positive), for
all sets of sheets, positions, names, atoms and inputs:

- `CalcTypes`, `Consistency` (`CacheIsConsistent`),
  `CircSound` (`CircMeansCycle`) and `Stability` (`ReadingIsStable`).
- The inductive invariant `IInv` is `TypeOK`, then `StackIInv`, which holds always:
  every frame but the top waits for exactly the cell of the frame above it
  (`Chain`), no cell occurs twice, and a cell under computation has no cached
  value but `#CIRC!`; then, while no cache is stale by a sheet operation and no
  recursion was cut off (`Sound`), `ValueIInv`: what a frame has read is what its
  formula sees now, `#CIRC!` is cached for circular cells only, cached values
  are justified.
- The argument. A formula that asks for a cell on the stack closes a cycle: the
  cells from that frame to the top each refer to the next (`CycleFound`), so
  `#CIRC!` is deserved. Whatever refers to a circular cell is circular
  (`CircularSpreads`). Hence a cell that is not circular sees only cells that are
  not, and those, once they show a value, keep it until an edit (`Calm`,
  `SeenStays`): what was justified when it was cached stays justified. An edit
  clears every cache of the workbook, which is why it does not matter where
  the dependents of the edited cell are.

`StateJournalProofs` proves `Invention` (`NothingInvented`) and `Currency`
(`JournalIsCurrent`) for all keys and values. `NothingInvented` is not inductive:
`SourcesGiven` adds that the journal and the entry of the set() under way were
given.

`GuiDocumentProofs` proves about `GuiDocument`, from `DocumentAssumption` alone (a new
workbook is a workbook, no body is "no file", the bounds are positive), for all
numbers of documents, contents, file names and depths of the history:
`DocTypes`, `SavedIsSaved` (`SavedUnlessTouched`), `OwnHistory`
(`HistoryStaysInDocument`) and `OwnCallback` (`ResultMeetsCallback`).

- `SavedUnlessTouched` is not inductive: it says nothing while the worker writes.
  `JobHolds` says what a job under way promises: the snapshot of a save has the
  body the window shows, unless the document was touched and counts as changed
  (or has no path); once the result is posted the file has that body; the
  result of an open is what the file holds. It is preserved because all edits,
  undo and redo too, set the flag or leave the body alone (`EditingChanges`).
- `OneJob` is the strength of the busy flag: at most one job exists, and busy says
  whether one does. With it a result can only meet its own callback.
- `RoomLeft` is about the bound `MaxDocs` only: an open under way has a document
  number left.

`ConsoleBridgeProofs` proves `OwnAnswers` (`AnswersMatch`), `NoneLeftBehind`
(`NoOrphans`) and `OverlapAlone` (`LossesOverlap`) from `BridgeAssumption`, for any
number of edits, commands and programs and any output of theirs.

- The inductive invariant says of each bridge that the process it talks to either
  serves the one request under way (`Serves`: the request is in at most one of
  inbox, job and outbox), or is silent: nothing is in its pipes but a scrap. An
  answer that follows a scrap goes under in it, so it is never read for another's.
  A process that failed a call is dropped before the next, so an answer it left
  behind has no reader. `ClosingOK` carries the second result over the wait at
  closing, and `Broken` says when the process that is dropped may be alive.
- For the third, `Meets` follows the workbook that a request takes along through
  the process: its answer holds that copy, with the command's own change or
  without. `BookOK` adds that what is in the window's workbook and not in the
  copy was changed while the command ran, up to the moment the posted answer is
  handled; and that nothing at all changes while a macro runs.

`SheetEditsProofs` is about the edits, from `EditsAssumption` alone, for any
sheets, any number of lines, any operands and any number of commands. Its first part
proves facts about the operators of `RefShift`, for all coordinates and counts:
surviving lines keep their order (`SurvivorsKeepOrder`), deleting what was
inserted is the identity on lines and on operands (`InsertThenDelete`,
`OperandComesBack`), the clamped ends of a range enclose exactly the survivors of
its lines, and the range vanishes with the last of them (`RangeKeepsSurvivors`,
`RangeVanishes`, `AdjustedRange`), and a copy that is copied back is what it was
(`CopyComesBack`). The second part is about the commands: `FormulasKeepLines`
(`FormulasFollow`), `RulesKeepLines` (`RulesFollow`), `NamesKeepLines`
(`NamesFollow`), and for each step `CopiesAlike` (`CopiesKeepForm`) and
`StylesFollowText` (`StylesStayWithText`).

- The inductive invariant `IInv` says what each variable holds, that no two lines
  of a sheet share an identity (without which the identities a range covers would
  not tell where it is), and the three promises, each with what it needs at the
  next edit: a formula or rule that still refers to something owes lines of the
  sheet that it names, a name without a sheet is one of the sheet it was
  defined on. The clip is part of it, since a paste may come any number of
  structural edits after its copy.
- A structural edit replaces a stretch of the sequence of lines by another
  (`IsSplice`). The first part says where a range's ends go, and the identities
  between them are those owed; rows and columns do not mind each other.
- A sort takes texts along unshifted, so a formula covers at its new place what it
  covered at the old; a style goes where its row's text goes, and what a row is
  sorted from was in the region before. For a structural edit styles and texts
  are carried by the same map of positions.

`SpillSheetProofs` is about the spill pass, from `SpillAssumption` alone (at least
one row and column, well-formed inputs, a `SUM(A1#)` names one spill), for sheets
of any size and any order of reads and edits: `DisjointSpills`
(`SpillsAreDisjoint`) and `FirstWins` (`FirstAnchorWins`), both from
`SpillInvariant`, and `OrderlyAgree` (`OrderlyValuesAgree`) from `OrderInvariant`,
which rests on the former. None of the three is inductive: the first says nothing of which anchors the pass has yet to register,
the others nothing at all while a pass runs.

- `Nested` describes the recursion: there is one pass at a time, right above it on
  the stack is the anchor that it computes, and a formula that makes its values
  from nothing has nobody above it. Any other formula may read a cell, which
  enters other formulas, while the map is half made.
- `InRowOrder` is the pass: those done come before the one at hand, and that
  before those to do. `MapOK` and `FirstSoFar` say that the map is right for those
  that are done; `NoneForgotten` that every array is done, at hand or to do.
- An anchor whose turn it is lies in no spill, a spill that is registered takes
  only cells that are free, and whatever is registered later belongs to a later
  anchor: so a decision about a contested cell, once made, stays right. An array
  that is met in the middle of a read (`hidden`) makes the map dirty, and the
  invariant is then about the next pass.

The second invariant, `OInv`, is what keeps a value from being cached too early
in a sheet whose arrays read only arrays above them (`Orderly`):

- `Reach`, what a formula reads through others, is computed in as many rounds as
  there are cells. `ReachIsClosed` shows that another round adds nothing: a round
  that adds something adds a cell whose formula is read, and there are not more
  rounds than such cells. From it follows that what is reached reaches no further
  (`ReachThrough`), which is what carries an assumption about one formula over to
  the formulas that it calls.
- A cell is `Ripe` when no array that the pass has yet to get a result for lays
  claim to it, a formula `Free` when all that it reaches is ripe. An anchor is
  free when its turn comes, since all the arrays that it reaches are above it and
  done (`NextAnchorOrder`); so every call that it makes goes to a ripe cell whose
  formula is free. The invariant says this of all calls in progress (`Reading`,
  `Through`), and that they are made in the order of the formula (`Waits`).
- A ripe cell that has been read is `Kept`: it is in the cache, or empty and in no
  spill, and so it stays (`Calm`), because a spill that is registered takes only
  cells that its array lays claim to. A sum whose sources are kept agrees with
  them for good (`Caching`, `Justified`). Formulas that depend on themselves are
  left out; of any other, no source is being computed by its callers (`NotBelow`).
- A formula computed by `get_value` must not turn out to be an array, for that
  would make the map dirty. The pass has dealt with every array, since each gives
  a list, errors or not (`Tried`, `GivesNoList`).
- Before the pass nothing is cached (`Unread`): in such sheets only the outermost
  read starts one, before it has computed anything (`Calls`), and the pass leaves
  the map clean, so that one is enough. In other sheets it may be dirty after the
  pass, and the properties wait for the next read.

Of `Acyclic` the proof needs only that the formula itself is on no cycle.

`TerminalProofs` extends two modules, `PtyTerminal` (whose definitions of that
kind are named `PtyInit`, `PtyNext`, `PtySpec` for this reason) and `TuiEditor`.

- `TakesOwn` (`TakesWhatWasWritten`), from `PtyAssumption`. The property is not
  inductive: `HandIsEmpty` (the reader's hand holds bytes only between read and
  feed), `StopComesFirst` (the master is closed only after `_stop` is set),
  `StartsOnce` and `StrayIsLast` (a foreign chunk, once taken, sends the reader to
  the top of its loop, where it sees `_stop`) are what it rests on.
- `SavedIsSaved` (`CleanMeansSaved`), with one step for each command.
- `Replayed` (`ReplayReproduces`). The inductive invariant `TapeInv` says only that a
  replay in place makes the sheet (`Remade`); that a relative replay makes it
  elsewhere follows for any distance (`RemadeAnywhere`), because the last action
  on a cell is the last action on the cell that it moves to. A command may write
  any number of cells: `RecordedWrites` is an induction over them, and
  `RecordedSet` its step, where a repeated edit collapses into the last action.
  The induction goes by the least counterexample (`FromZero`), since the
  library's own principle cannot be instantiated.

Only model-checked, and why:

- Liveness (`ReadReturns` twice, `BusyEnds`, `CommandsEnd`, `KeysGetThrough`,
  `OutputShown`, `ReaderEnds`): out of the prover's reach, as
  is ENABLED.
- The properties that runs refute are, of course, not theorems.

## Plan

What would come next, in this order: the integer calculator (`core/calc/rpn16.py`:
word size, signs, rotations, division against the integers), the defined names'
cache within `SheetCalc`, pins of the clipboard history, and saving by two
windows.

## Not modelled

The parser (a pure function; the modules start from its result), the function
library and the science modules (numerics), the file formats (serialisation),
dialogs, themes and the grid widget (layout), confinement of user code and the
installation of optional packages (calls of the operating system), settings,
and the calculators. These are nine tenths of the repository's lines: numeric and
text functions of one argument list each, which example tests cover and a model
could only repeat. `PROJECT.json` gives the reason for each.
