------------------------------ MODULE TuiEditor ------------------------------
(***************************************************************************)
(* The terminal user interface: the editor (abax/tui/editor.py), its keys  *)
(* (tui/keys.py), the macro recorder (abax/recorder.py), copying and       *)
(* filling (core/fill.py), the clipboard history (core/clipboard.py) and   *)
(* the document it saves (engine/document.py).                             *)
(*                                                                         *)
(* The sheet is one column of cells.  A cell is blank, a text, a formula   *)
(* that refers to a row of the column, or a formula that lost its          *)
(* reference.  The column is one of those that a region holds: what happens *)
(* in the others matters when it cuts a command short.  What a formula     *)
(* displays, what a series continues with and what Python code writes is   *)
(* left open.  Number formats, which are saved  *)
(* with the cells, are the set of the rows that have one.                  *)
(*                                                                         *)
(* The editor's modes hold nothing that another mode reads (edit_buf is     *)
(* filled again by begin_insert), so what the keys of one mode come to is  *)
(* one action: a commit, a command, a store from the calculator.           *)
(***************************************************************************)
EXTENDS Integers, Sequences, SequencesExt

CONSTANTS
    LastRow,       \* the rows are 0 .. LastRow
    Texts,         \* texts that are typed
    Capacity,      \* of the clipboard history
    MaxCommands    \* bound on the commands given

ASSUME TuiAssumption == /\ LastRow \in Nat /\ Capacity \in Nat
                        /\ MaxCommands \in Nat /\ Texts # {}

Rows  == 0 .. LastRow

Blank       == [kind |-> "blank", of |-> 0]
Text(t)     == [kind |-> "text", of |-> t]
Formula(r)  == [kind |-> "formula", of |-> r]
RefError    == [kind |-> "error", of |-> 0]

Typed  == {Blank, Formula(0)} \cup {Text(t) : t \in Texts}
Column == [Rows -> Typed]

NoClip   == [origin |-> 0, grid |-> <<>>]
NoAnchor == -1

VARIABLES
    cells, formats,    \* the active sheet
    dirty,             \* Document.dirty
    file,              \* what the file at Document.path holds
    row,               \* TuiEditor: the cursor
    clip, clips,       \* the last copied region and the clipboard history
    recorder,          \* MacroRecorder
    macro,             \* the recording that :rec save wrote last
    running,
    base,              \* history: the cells when the recording began
    exact,             \* history: every write since then was recorded
    untold,            \* history: a command that failed left a change unmarked
    commands           \* number of commands, for the bound

doc     == <<cells, formats, dirty>>
disk    == <<file, untold>>
ui      == <<row, running>>
copies  == <<clip, clips>>
tape    == <<recorder, macro, base, exact>>
vars    == <<doc, disk, ui, copies, tape, commands>>

NewRecorder == [recording |-> FALSE, relative |-> FALSE, anchor |-> NoAnchor, actions |-> <<>>]

\* A new document, or one that was opened: saved either way.
Init == /\ cells \in [Rows -> {Blank, Formula(0)}]
        /\ formats = {} /\ dirty = FALSE
        /\ file = [cells |-> cells, formats |-> {}] /\ untold = FALSE
        /\ row = 0 /\ running = TRUE
        /\ clip = NoClip /\ clips = <<>>
        /\ recorder = NewRecorder /\ macro = NewRecorder
        /\ base = cells /\ exact = FALSE
        /\ commands = 0

-----------------------------------------------------------------------------
\* shift_formula, by a number of rows.
Shifted(cell, by) ==
    IF cell.kind # "formula" \/ by = 0 THEN cell
    ELSE IF cell.of + by < 0 THEN RefError ELSE Formula(cell.of + by)

Write(r, raw) == [row |-> r, raw |-> raw]

\* set_cell, for one write after another: a cell has what was written to it
\* last.  Writes beyond the sheet's first row are skipped, and the callers'
\* guards keep the others within the rows.
Applied(column, writes) ==
    [r \in Rows |->
        LET here == {i \in DOMAIN writes : writes[i].row = r}
        IN  IF here = {} THEN column[r] ELSE writes[Max(here)].raw]

InColumn(writes) == \A i \in DOMAIN writes : writes[i].row <= LastRow

Noted(rec, r) ==
    [rec EXCEPT !.anchor = IF rec.relative /\ @ = NoAnchor THEN r ELSE @]

Set(r, raw) == [kind |-> "set", row |-> r, raw |-> raw]
Clear(r)    == [kind |-> "clear", row |-> r, raw |-> Blank]

\* Mutant of RecordSet: any earlier set of the cell takes the new value.
RecordSetAnywhere(rec, r, raw) ==
    IF ~ rec.recording THEN rec
    ELSE IF \E i \in DOMAIN rec.actions : rec.actions[i].kind = "set" /\ rec.actions[i].row = r
         THEN [rec EXCEPT !.actions = [i \in DOMAIN @ |->
                  IF @[i].kind = "set" /\ @[i].row = r THEN Set(r, raw) ELSE @[i]]]
         ELSE [Noted(rec, r) EXCEPT !.actions = Append(@, Set(r, raw))]

\* record_set: repeated edits of one cell collapse into the last.
RecordSet(rec, r, raw) ==
    LET last == Last(rec.actions)
    IN  IF ~ rec.recording THEN rec
        ELSE IF rec.actions # <<>> /\ last.kind = "set" /\ last.row = r
             THEN [rec EXCEPT !.actions[Len(rec.actions)].raw = raw]
             ELSE [Noted(rec, r) EXCEPT !.actions = Append(@, Set(r, raw))]

RecordClear(rec, r) ==
    IF ~ rec.recording THEN rec
    ELSE [Noted(rec, r) EXCEPT !.actions = Append(@, Clear(r))]

\* on_set is called after each write.
Recorded(rec, writes) ==
    LET after[i \in 0 .. Len(writes)] ==
            IF i = 0 THEN rec ELSE RecordSet(after[i - 1], writes[i].row, writes[i].raw)
    IN  after[Len(writes)]

\* What replay writes, for a recording whose anchor moves by some rows.
ReplayWrites(rec, by) ==
    [i \in DOMAIN rec.actions |->
        Write(rec.actions[i].row + by,
              IF rec.actions[i].kind = "set" THEN Shifted(rec.actions[i].raw, by) ELSE Blank)]

ReplayShift(rec, at) ==
    IF rec.relative /\ rec.anchor # NoAnchor THEN at - rec.anchor ELSE 0

-----------------------------------------------------------------------------
\* Commands that change the sheet, and the end they come to.

Counted == running /\ commands < MaxCommands /\ commands' = commands + 1

\* Writes that on_set reports to the recorder.
Puts(writes) == /\ InColumn(writes)
                /\ cells' = Applied(cells, writes)
                /\ recorder' = Recorded(recorder, writes)
                /\ UNCHANGED <<formats, file, macro, base, exact>>

\* They are followed by mark_dirty, unless an exception comes in between.
Edit(writes) == /\ Puts(writes)
                /\ dirty' = TRUE
                /\ UNCHANGED untold

EditCutShort(writes) == /\ Puts(writes)
                        /\ untold' = IF cells' = cells THEN untold ELSE TRUE
                        /\ UNCHANGED dirty

\* Writes that nobody reports, then mark_dirty.
EditUnrecorded(writes) == /\ InColumn(writes)
                          /\ cells' = Applied(cells, writes)
                          /\ dirty' = TRUE
                          /\ exact' = FALSE
                          /\ UNCHANGED <<formats, disk, recorder, macro, base>>

-----------------------------------------------------------------------------
\* Keys: the arrows, n and N, which go to a match; Enter in insert mode; x.

Move(r) == /\ running
           /\ row' = r
           /\ UNCHANGED <<doc, disk, running, copies, tape, commands>>

CommitInsert(c) == /\ Counted
                   /\ Edit(<<Write(row, c)>>)
                   /\ UNCHANGED <<ui, copies>>

ClearCell == /\ Counted
             /\ cells' = [cells EXCEPT ![row] = Blank]
             /\ recorder' = RecordClear(recorder, row)
             /\ dirty' = TRUE
             /\ UNCHANGED <<formats, disk, ui, copies, macro, base, exact>>

-----------------------------------------------------------------------------
\* Commands.

\* region_to_tsv: the text of a displayed region, from which clip_from_tsv
\* drops blank rows at the end.
Displays(cell, t) == IF cell.kind \in {"blank", "text"} THEN t = cell ELSE t \in {Text(x) : x \in Texts}

\* ClipboardManager.add: blank text is ignored, known text moves to the front,
\* the oldest entries beyond the capacity are evicted.
Added(history, entry) ==
    IF \A i \in DOMAIN entry : entry[i] = Blank THEN history
    ELSE LET known == {i \in DOMAIN history : history[i] = entry}
             front == <<entry>> \o
                 IF known = {} THEN history ELSE RemoveAt(history, CHOOSE i \in known : TRUE)
         IN  SubSeq(front, 1, IF Len(front) > Capacity THEN Capacity ELSE Len(front))

\* :copy and the key y.
Copy(from, to) ==
    /\ Counted
    /\ clip' = [origin |-> from, grid |-> [i \in 1 .. to - from + 1 |-> cells[from + i - 1]]]
    /\ \E entry \in [1 .. to - from + 1 -> {Blank} \cup {Text(t) : t \in Texts}] :
          /\ \A i \in DOMAIN entry : Displays(cells[from + i - 1], entry[i])
          /\ clips' = Added(clips, entry)
    /\ UNCHANGED <<doc, disk, ui, tape>>

\* paste_clip.
PasteWrites(block, by, at) ==
    [i \in DOMAIN block |-> Write(at + i - 1, Shifted(block[i], by))]

\* :paste and the key p.
Paste(at) ==
    /\ Counted
    /\ clip # NoClip
    /\ Edit(PasteWrites(clip.grid, at - clip.origin, at))
    /\ UNCHANGED <<ui, copies>>

\* :clip pastes the text as it was displayed.
PasteHistory(i) ==
    /\ Counted
    /\ i \in DOMAIN clips
    /\ Edit(PasteWrites(clips[i], 0, row))
    /\ UNCHANGED <<ui, copies>>

FillDown(from, to) ==
    /\ Counted
    /\ Edit([i \in 1 .. to - from |-> Write(from + i, Shifted(cells[from], i))])
    /\ UNCHANGED <<ui, copies>>

\* fill_series goes on from the cells that are filled to the end of the region,
\* one column after the other.  In a column further right a day after the last
\* one of the calendar is an exception: _handle_fill reports it and returns.
FillSeries(from, to) ==
    /\ Counted
    /\ \E first \in from .. to + 1, more \in Typed \ {Blank} :
          /\ \A r \in from .. first - 1 : cells[r] # Blank
          /\ first <= to => cells[first] = Blank
          /\ LET series == [i \in 1 .. to - first + 1 |->
                               Write(first + i - 1, IF first = from THEN Blank ELSE more)]
             IN  Edit(series) \/ EditCutShort(series)
    /\ UNCHANGED <<ui, copies>>

\* The order of sort_region on the texts of cells: blank, #REF!, formulas,
\* texts.
SortsBefore(a, b) ==
    LET rank(c) == CASE c.kind = "blank" -> 0 [] c.kind = "error" -> 1
                     [] c.kind = "formula" -> 2 [] c.kind = "text" -> 3
    IN  rank(a) < rank(b) \/ (rank(a) = rank(b) /\ a.of < b.of)

Sort(from, to, descending) ==
    /\ Counted
    /\ \E order \in Permutations(from .. to) :
          /\ \A r, q \in from .. to : r < q =>
                LET first  == cells[order[r]]
                    second == cells[order[q]]
                IN  ~ IF descending THEN SortsBefore(first, second) ELSE SortsBefore(second, first)
          /\ Edit([i \in 1 .. to - from + 1 |-> Write(from + i - 1, cells[order[from + i - 1]])])
    /\ UNCHANGED <<ui, copies>>

\* replace_all writes the cells that change, from the first row on.
Replace(old, new) ==
    /\ Counted
    /\ LET hits == {r \in Rows : cells[r] = old}
       IN  \E order \in [1 .. Cardinality(hits) -> hits] :
              /\ \A i, j \in DOMAIN order : i < j => order[i] < order[j]
              /\ Edit([i \in DOMAIN order |-> Write(order[i], new)])
    /\ UNCHANGED <<ui, copies>>

\* :fmt on some rows; "general" takes the format away.
Format(rows) ==
    /\ Counted
    /\ formats' \in {formats \cup rows, formats \ rows}
    /\ dirty' = TRUE
    /\ UNCHANGED <<cells, disk, ui, copies, tape>>

\* > in the calculator: the number goes to the cell and not to the recorder.
StoreNumber(t) ==
    /\ Counted
    /\ EditUnrecorded(<<Write(row, Text(t))>>)
    /\ UNCHANGED <<ui, copies>>

\* :py; when the statement raises, what it has done is not marked.
Python(r, c) ==
    /\ Counted
    /\ cells' = [cells EXCEPT ![r] = c]
    /\ exact' = FALSE
    /\ \/ dirty' = TRUE /\ untold' = untold
       \/ dirty' = dirty /\ untold' = TRUE
    /\ UNCHANGED <<formats, file, recorder, macro, base, ui, copies>>

-----------------------------------------------------------------------------
\* :rec

StartRecording(relative) ==
    /\ Counted
    /\ recorder' = [recording |-> TRUE, relative |-> relative, anchor |-> NoAnchor, actions |-> <<>>]
    /\ base' = cells
    /\ exact' = TRUE
    /\ UNCHANGED <<doc, disk, ui, copies, macro>>

\* The history ends here too: later edits are not in the recording.
StopRecording ==
    /\ Counted
    /\ recorder.recording
    /\ recorder' = [recorder EXCEPT !.recording = FALSE]
    /\ exact' = FALSE
    /\ UNCHANGED <<doc, disk, ui, copies, macro, base>>

Replay ==
    /\ Counted
    /\ EditUnrecorded(ReplayWrites(recorder, ReplayShift(recorder, row)))
    /\ UNCHANGED <<ui, copies>>

SaveMacro == /\ Counted
             /\ macro' = [recorder EXCEPT !.recording = FALSE]
             /\ UNCHANGED <<doc, disk, ui, copies, recorder, base, exact>>

\* :macro on the recording that was saved: set_rc, which skips rows below 0.
RunMacro == /\ Counted
            /\ macro # NewRecorder
            /\ EditUnrecorded(ReplayWrites(macro, ReplayShift(macro, row)))
            /\ UNCHANGED <<ui, copies>>

-----------------------------------------------------------------------------
\* :w, :wq and :q.  A save that fails leaves the file and the document alone.

\* Mutant of Saved: only the cells are saved.
SavedCells == /\ file' = [file EXCEPT !.cells = cells]
              /\ dirty' = FALSE
              /\ untold' = FALSE

Saved == /\ file' = [cells |-> cells, formats |-> formats]
         /\ dirty' = FALSE
         /\ untold' = FALSE

Save(quit) == /\ Counted
              /\ Saved /\ running' = ~ quit
              /\ UNCHANGED <<cells, formats, row, copies, tape>>

\* :q, which does not ask, and any error that no handler catches: a bad
\* destination of :paste, a path that :rec save cannot write, a macro that
\* raises, a domain error of the calculator.
Quit == /\ running
        /\ running' = FALSE
        /\ UNCHANGED <<doc, disk, row, copies, tape, commands>>

Next ==
    \/ \E r \in Rows : Move(r) \/ Paste(r)
    \/ \E c \in Typed : CommitInsert(c)
    \/ ClearCell
    \/ \E from \in Rows : \E to \in from .. LastRow :
          \/ Copy(from, to) \/ FillDown(from, to) \/ FillSeries(from, to) \/ Format(from .. to)
          \/ \E descending \in BOOLEAN : Sort(from, to, descending)
    \/ \E i \in 1 .. Capacity : PasteHistory(i)
    \/ \E t, u \in Texts : t # u /\ Replace(Text(t), Text(u))
    \/ \E t \in Texts : StoreNumber(t)
    \/ \E r \in Rows, c \in Typed : Python(r, c)
    \/ \E relative \in BOOLEAN : StartRecording(relative)
    \/ StopRecording \/ Replay \/ SaveMacro \/ RunMacro
    \/ \E quit \in BOOLEAN : Save(quit)
    \/ Quit

Spec == Init /\ [][Next]_vars

-----------------------------------------------------------------------------
\* A column with everything in it moved down by some rows.
Slid(column, by) ==
    [r \in Rows |-> IF r - by \in Rows THEN Shifted(column[r - by], by) ELSE Blank]

(***************************************************************************)
(* While every write since the recording began went through the recorder,  *)
(* replaying it on the sheet as it was then gives the sheet as it is now,  *)
(* whichever commands wrote, in whatever order, on however many cells; and *)
(* a relative recording replayed further down, on a sheet that lies further *)
(* down, gives the same sheet further down, its formulas included.         *)
(***************************************************************************)
ReplayReproduces ==
    exact /\ recorder.recording =>
        \A by \in IF recorder.relative THEN -1 .. 1 ELSE {0} :
            LET again == Applied(Slid(base, by), ReplayWrites(recorder, by))
            IN  \A r \in Rows : r - by \in Rows => again[r] = Shifted(cells[r - by], by)

(***************************************************************************)
(* A document that is not marked as changed is what its file holds: every  *)
(* command that comes to its end and has changed cells or formats has      *)
(* marked it, and only a save of both takes the mark away.  A command that *)
(* fails half way does not mark what it did: :py with a statement that     *)
(* raises, :fill series with a date that has no successor.  Such a change  *)
(* is the exception, until the next save.                                  *)
(***************************************************************************)
CleanMeansSaved ==
    ~ dirty /\ ~ untold => file = [cells |-> cells, formats |-> formats]
=============================================================================
