----------------------------- MODULE GuiDocument -----------------------------
(***************************************************************************)
(* The main window's document: the undo stack (UndoStack), the path and    *)
(* the dirty flag, one background open or save at a time (gui/mixin_io.py, *)
(* workers.py), and the console worker that is sent the workbook and sends *)
(* it back (gui/console/pyconsole.py).                                     *)
(*                                                                         *)
(* The GUI thread handles one event at a time; a worker thread works       *)
(* beside it and posts its result, then its end, to the GUI's event queue. *)
(* While an open or a save runs the grid and the formula bar are disabled, *)
(* the menus are not.  A workbook state is what matters of it here: which  *)
(* document it belongs to, and a body.                                     *)
(***************************************************************************)
EXTENDS Integers, Sequences, FiniteSets

CONSTANTS
    Bodies,     \* contents of a workbook, opaque
    Fresh,      \* contents of a new workbook
    WithSheet,  \* the contents in which one particular sheet exists
    Paths,      \* file names
    NoPath,     \* path=None
    NoFile,     \* nothing saved there
    Idle,       \* no callback, no command
    MaxDocs,    \* bound: documents opened or created in one session
    Labels, Keys, NoKey, MaxDepth, Window    \* see UndoStack

Docs   == 1 .. MaxDocs
States == [doc : Docs, body : Bodies]

ASSUME DocumentAssumption == /\ Fresh \in Bodies /\ WithSheet \subseteq Bodies
                             /\ NoPath \notin Paths /\ NoFile \notin Bodies
                             /\ NoKey \notin Keys
                             /\ {MaxDocs, MaxDepth, Window} \subseteq Nat \ {0}

VARIABLES
    undo, redo, lastKey, elapsed,   \* _doc._undo
    live,       \* _doc.workbook
    path,       \* _doc.path
    dirty,      \* _doc.dirty
    current,    \* which document _doc is
    opened,     \* documents created so far
    disk,       \* the bodies saved under each path
    jobs,       \* IOWorkers and their posted events
    callback,   \* _io_on_success
    busy,       \* _io_busy
    console,    \* the state sent to the console worker, while it runs
    reply,      \* the envelope in the console's posted result
    touched,    \* history: the document changed while this save was under way
    overtaken,  \* history: the save that cleared dirty was touched so
    astray,     \* history: a console result reached another document
    deleted     \* history: the particular sheet has been deleted

stack  == <<undo, redo, lastKey, elapsed>>
doc    == <<stack, live, path, dirty, current, opened>>
io     == <<jobs, callback, busy, disk>>
shell  == <<console, reply>>
ghosts == <<touched, overtaken, astray, deleted>>
vars   == <<doc, io, shell, ghosts>>

Stack == INSTANCE UndoStack

Jobs == [op : {"open", "save"}, path : Paths, data : States \cup {Idle},
         phase : {"run", "result", "error", "finished"}, result : Bodies \cup {NoFile}]

TypeOK == /\ Stack!TypeOK
          /\ path \in Paths \cup {NoPath} /\ dirty \in BOOLEAN
          /\ current \in Docs /\ opened \in Docs
          /\ disk \in [Paths -> Bodies \cup {NoFile}]
          /\ jobs \subseteq Jobs
          /\ callback \in [op : {"open", "save"}, path : Paths] \cup {Idle}
          /\ busy \in BOOLEAN
          /\ console \in States \cup {Idle} /\ reply \in States \cup {Idle}
          /\ touched \in BOOLEAN /\ overtaken \in BOOLEAN
          /\ astray \in BOOLEAN /\ deleted \in BOOLEAN

Init == /\ undo = <<>> /\ redo = <<>> /\ lastKey = NoKey /\ elapsed = Window
        /\ live = [doc |-> 1, body |-> Fresh]
        /\ path = NoPath /\ dirty = FALSE /\ current = 1 /\ opened = 1
        /\ disk \in [Paths -> {NoFile, Fresh}]
        /\ jobs = {} /\ callback = Idle /\ busy = FALSE
        /\ console = Idle /\ reply = Idle
        /\ touched = FALSE /\ overtaken = FALSE /\ astray = FALSE /\ deleted = FALSE

-----------------------------------------------------------------------------
Saving == \E j \in jobs : j.op = "save" /\ j.phase \in {"run", "result"}

Touch == touched' = (touched \/ Saving)

Become(b) == live' = [live EXCEPT !.body = b]

\* What a history variable remembers of the sheet when the workbook changes by
\* anything but its deletion.
Forgive(b) == deleted' = (deleted /\ b \notin WithSheet)

Checkpoint(key) == \E l \in Labels : Stack!Checkpoint(live, l, key)

\* A cell edit in the grid or the formula bar, which are disabled while an open
\* or a save runs; it has left early when the text is the same.
CommitCell(b, key) ==
    /\ ~ busy
    /\ b # live.body
    /\ b \notin WithSheet \/ live.body \in WithSheet
    /\ Checkpoint(key)
    /\ Become(b) /\ dirty' = TRUE
    /\ Touch
    /\ UNCHANGED <<path, current, opened, io, shell, overtaken, astray, deleted>>

\* A command of a menu (cut, paste, fill, clear, sort, styles ...), not disabled.
\* The checkpoint comes first, and the command may then change nothing: fill
\* sets the dirty flag all the same, paste of an empty clipboard does not.
Command(b) ==
    /\ b \notin WithSheet \/ live.body \in WithSheet
    /\ Checkpoint(NoKey)
    /\ Become(b) /\ dirty' \in {TRUE, dirty \/ b # live.body}
    /\ Touch
    /\ UNCHANGED <<path, current, opened, io, shell, overtaken, astray, deleted>>

\* A change without a checkpoint: a sheet inserted or renamed, replace, pivot.
Mutate(b) ==
    /\ Become(b) /\ dirty' = TRUE
    /\ Touch /\ Forgive(b)
    /\ UNCHANGED <<stack, path, current, opened, io, shell, overtaken, astray>>

DeleteSheet(b) ==
    /\ live.body \in WithSheet /\ b \notin WithSheet
    /\ Become(b) /\ dirty' = TRUE
    /\ Touch /\ deleted' = TRUE
    /\ UNCHANGED <<stack, path, current, opened, io, shell, overtaken, astray>>

\* Mutant of Undo: the document still counts as saved.
UndoKeepsClean == /\ Stack!Undo
                  /\ Touch
                  /\ UNCHANGED <<path, dirty, current, opened, io, shell,
                                 overtaken, astray, deleted>>

Undo == /\ Stack!Undo
        /\ dirty' = TRUE
        /\ Touch
        /\ UNCHANGED <<path, current, opened, io, shell, overtaken, astray, deleted>>

Redo == /\ Stack!Redo
        /\ dirty' = TRUE
        /\ Touch
        /\ UNCHANGED <<path, current, opened, io, shell, overtaken, astray, deleted>>

Tick == Stack!Tick /\ UNCHANGED <<path, dirty, current, opened, io, shell, ghosts>>

\* The bound MaxDocs, the documents being opened included.
Room == opened + Cardinality({j \in jobs : j.op = "open" /\ j.phase # "finished"}) < MaxDocs

\* Mutant of Replace: the undo stack is the window's, not the document's.
ReplaceKeepsStack(b, p) ==
    /\ opened' = opened + 1 /\ current' = opened'
    /\ live' = [doc |-> opened', body |-> b]
    /\ path' = p /\ dirty' = FALSE
    /\ overtaken' = FALSE /\ deleted' = FALSE
    /\ UNCHANGED stack

\* _doc = a new Document, with an undo stack of its own.
Replace(b, p) ==
    /\ opened' = opened + 1 /\ current' = opened'
    /\ Stack!Wipe
    /\ live' = [doc |-> opened', body |-> b]
    /\ path' = p /\ dirty' = FALSE
    /\ overtaken' = FALSE /\ deleted' = FALSE

NewDocument == Room /\ Replace(Fresh, NoPath) /\ Touch /\ UNCHANGED <<io, shell, astray>>

-----------------------------------------------------------------------------
\* Mutant of RunIo: it does not refuse.
RunIoAnyway(op, p, data) ==
    /\ busy' = TRUE
    /\ callback' = [op |-> op, path |-> p]
    /\ jobs' = jobs \cup {[op |-> op, path |-> p, data |-> data,
                           phase |-> "run", result |-> NoFile]}
    /\ UNCHANGED disk

\* _run_io: refuses while busy.
RunIo(op, p, data) ==
    /\ ~ busy
    /\ busy' = TRUE
    /\ callback' = [op |-> op, path |-> p]
    /\ jobs' = jobs \cup {[op |-> op, path |-> p, data |-> data,
                           phase |-> "run", result |-> NoFile]}
    /\ UNCHANGED disk

StartOpen(p) == Room /\ RunIo("open", p, Idle) /\ UNCHANGED <<doc, shell, ghosts>>

\* Save, to the document's own path, or Save As: the worker saves a snapshot
\* taken now.
StartSave(p) == RunIo("save", p, live) /\ UNCHANGED <<doc, shell, ghosts>>

Post(j, phase, result) ==
    jobs' = (jobs \ {j}) \cup {[j EXCEPT !.phase = phase, !.result = result]}

\* Mutant of Work: a file that is not there is no error.
WorkAnyway(j) ==
    /\ j.phase = "run"
    /\ IF j.op = "open" THEN Post(j, "result", disk[j.path]) /\ UNCHANGED disk
       ELSE /\ disk' = [disk EXCEPT ![j.path] = j.data.body]
            /\ Post(j, "result", j.data.body)
    /\ UNCHANGED <<doc, callback, busy, shell, ghosts>>

\* The worker thread: it reads or writes the file, or fails, and posts the
\* result; a failed save of the native format leaves the old file.
Work(j) ==
    /\ j.phase = "run"
    /\ \/ /\ j.op = "open" /\ disk[j.path] # NoFile
          /\ Post(j, "result", disk[j.path])
          /\ UNCHANGED disk
       \/ /\ j.op = "save"
          /\ disk' = [disk EXCEPT ![j.path] = j.data.body]
          /\ Post(j, "result", j.data.body)
       \/ Post(j, "error", NoFile) /\ UNCHANGED disk
    /\ UNCHANGED <<doc, callback, busy, shell, ghosts>>

\* _on_io_result calls whatever callback is registered now.
OnResult(j) ==
    /\ j.phase = "result"
    /\ Post(j, "finished", NoFile)
    /\ \/ /\ callback # Idle /\ callback.op = "open"
          /\ Replace(j.result, callback.path)
       \/ /\ callback # Idle /\ callback.op = "save"
          /\ path' = callback.path /\ dirty' = FALSE
          /\ overtaken' = touched
          /\ UNCHANGED <<stack, live, current, opened, deleted>>
       \/ callback = Idle /\ UNCHANGED <<doc, overtaken, deleted>>
    /\ touched' = FALSE
    /\ UNCHANGED <<callback, busy, disk, shell, astray>>

\* Mutant of OnError: after an error the worker does not say that it is done.
OnErrorLast(j) ==
    /\ j.phase = "error"
    /\ jobs' = jobs \ {j}
    /\ touched' = FALSE
    /\ UNCHANGED <<doc, callback, busy, disk, shell, overtaken, astray, deleted>>

OnError(j) ==
    /\ j.phase = "error"
    /\ Post(j, "finished", NoFile)
    /\ touched' = FALSE
    /\ UNCHANGED <<doc, callback, busy, disk, shell, overtaken, astray, deleted>>

\* thread.finished: the window is usable again.
OnDone(j) ==
    /\ j.phase = "finished"
    /\ jobs' = jobs \ {j}
    /\ callback' = Idle /\ busy' = FALSE
    /\ UNCHANGED <<doc, disk, shell, ghosts>>

-----------------------------------------------------------------------------
\* A console command gets the workbook as it is now.
RunConsole == /\ console = Idle /\ reply = Idle
              /\ console' = live
              /\ UNCHANGED <<doc, io, reply, ghosts>>

\* The worker process answers with what the command made of it, or is gone.
Answer(b) == /\ console # Idle
             /\ reply' = [console EXCEPT !.body = b]
             /\ console' = Idle
             /\ UNCHANGED <<doc, io, ghosts>>

Crash == /\ console # Idle
         /\ console' = Idle
         /\ UNCHANGED <<doc, io, reply, ghosts>>

\* _on_result: the answer replaces the contents of the document shown now.
OnReply == /\ reply # Idle
           /\ live' = reply /\ dirty' = TRUE
           /\ reply' = Idle
           /\ Touch /\ Forgive(reply.body)
           /\ astray' = (astray \/ reply.doc # current)
           /\ UNCHANGED <<stack, path, current, opened, io, console, overtaken>>

-----------------------------------------------------------------------------
EventLoop == \E j \in jobs : OnResult(j) \/ OnError(j) \/ OnDone(j)
Worker    == \E j \in jobs : Work(j)

Next == \/ \E b \in Bodies, k \in Keys : CommitCell(b, k)
        \/ \E b \in Bodies : Command(b) \/ Mutate(b) \/ DeleteSheet(b)
        \/ Undo \/ Redo \/ Tick
        \/ NewDocument
        \/ \E p \in Paths : StartOpen(p) \/ StartSave(p)
        \/ Worker \/ EventLoop
        \/ RunConsole
        \/ \E b \in Bodies : Answer(b)
        \/ Crash
        \/ OnReply

Spec == Init /\ [][Next]_vars

\* Threads run, and Qt delivers what they post.
FairSpec == Spec /\ WF_vars(Worker) /\ WF_vars(EventLoop)

-----------------------------------------------------------------------------
\* "saved" in the status bar means the file holds what the window shows,
\* through edits, undo, failed saves and console results - unless the document
\* was touched while the save that cleared the flag was under way.
SavedUnlessTouched ==
    ~ dirty /\ path # NoPath /\ ~ overtaken => disk[path] = live.body

\* Replacing the document replaces its history: no Ctrl+Z or Ctrl+Y leads into
\* another document's contents, unless a console result brought them.
HistoryStaysInDocument ==
    ~ astray => /\ live.doc = current
                /\ \A i \in DOMAIN undo : undo[i].state.doc = current
                /\ \A i \in DOMAIN redo : redo[i].state.doc = current

\* The busy flag does its work: a result meets the callback that was
\* registered for it, never that of another open or save.
ResultMeetsCallback ==
    \A j \in jobs : j.phase \in {"run", "result"} =>
        callback = [op |-> j.op, path |-> j.path]

\* The window does not stay disabled: every open and save ends.
BusyEnds == busy ~> ~ busy

-----------------------------------------------------------------------------
\* The status bar shows "the saved/unsaved state" (gui-guide.md:61).
SavedMeansSaved == ~ dirty /\ path # NoPath => disk[path] = live.body

\* "The live workbook is shipped to the worker and back" (gui-guide.md:451).
ConsoleAnswersItsDocument == live.doc = current

\* "deleting a sheet is not reversible with Ctrl+Z" (gui-guide.md:317).
DeletedSheetStaysDeleted == deleted => live.body \notin WithSheet
=============================================================================
