--------------------------- MODULE GuiDocumentProofs ---------------------------
(***************************************************************************)
(* Proofs about GuiDocument, for every number of documents, contents, file *)
(* names and checkpoints: a result meets its own callback, the history     *)
(* stays in its document, and saved means saved.                           *)
(***************************************************************************)
EXTENDS GuiDocument, TLAPS, SequenceTheorems, FiniteSetTheorems

Entry == [state : States, label : Labels]

\* The busy flag lets one open or save run at a time.
OneJob == /\ \A i, j \in jobs : i = j
          /\ busy <=> jobs # {}

\* An open under way has a document left to open.
RoomLeft == \A j \in jobs : j.op = "open" /\ j.phase # "finished" => opened < MaxDocs

\* What an open or a save holds, until its result has been handled: a save of
\* an untouched document has the body that the window shows, and so has one
\* of a touched document that still counts as saved.
JobHolds ==
    \A j \in jobs :
        /\ j.op = "save" => j.data \in States
        /\ j.op = "save" /\ j.phase \in {"run", "result"}
           /\ (~ touched \/ (~ dirty /\ path # NoPath)) => j.data.body = live.body
        /\ j.op = "save" /\ j.phase = "result" => disk[j.path] = j.data.body
        /\ j.op = "open" /\ j.phase = "result" =>
               j.result \in Bodies /\ disk[j.path] = j.result

IInv == /\ TypeOK
        /\ OneJob
        /\ ResultMeetsCallback
        /\ RoomLeft
        /\ JobHolds
        /\ SavedUnlessTouched
        /\ HistoryStaysInDocument

-----------------------------------------------------------------------------
\* The undo stack: every entry of it is an old one or holds the live state.

\* All entries of a stack hold states of document d.
AllOf(s, d) == \A i \in DOMAIN s : s[i].state.doc = d

\* The history stays in its document: the same, stack by stack.
LEMMA HistoryParts ==
    HistoryStaysInDocument <=>
        (~ astray => live.doc = current /\ AllOf(undo, current) /\ AllOf(redo, current))
BY DEF HistoryStaysInDocument, AllOf

\* An entry put on a stack, with or without dropping the oldest.
LEMMA PushEntries ==
    ASSUME NEW s \in Seq(Entry), NEW e \in Entry, NEW d
    PROVE  /\ Append(s, e) \in Seq(Entry) /\ Stack!Push(s, e) \in Seq(Entry)
           /\ AllOf(s, d) /\ e.state.doc = d
                => AllOf(Append(s, e), d) /\ AllOf(Stack!Push(s, e), d)
<1>1. ASSUME NEW t \in Seq(Entry)
      PROVE  /\ Append(t, e) \in Seq(Entry)
             /\ AllOf(t, d) /\ e.state.doc = d => AllOf(Append(t, e), d)
  <2>1. /\ Len(t) \in Nat /\ Append(t, e) \in Seq(Entry)
        /\ Len(Append(t, e)) = Len(t) + 1
        /\ \A i \in 1 .. Len(t) : Append(t, e)[i] = t[i]
        /\ Append(t, e)[Len(t) + 1] = e
        /\ DOMAIN t = 1 .. Len(t)
    BY LenProperties, AppendProperties
  <2>2. DOMAIN Append(t, e) = 1 .. Len(t) + 1
    BY <2>1, LenProperties
  <2>3. QED BY <2>1, <2>2 DEF AllOf
<1>2. CASE s = <<>>
  <2>1. Len(s) = 0 /\ MaxDepth > 0
    BY <1>2, EmptySeq, DocumentAssumption
  <2>2. Stack!Push(s, e) = Append(s, e)
    BY <2>1 DEF Stack!Push
  <2>3. QED BY <1>1, <2>2
<1>3. CASE s # <<>>
  <2>1. /\ Tail(s) \in Seq(Entry) /\ Len(Tail(s)) = Len(s) - 1
        /\ \A i \in 1 .. Len(Tail(s)) : Tail(s)[i] = s[i + 1]
        /\ Len(s) \in Nat \ {0} /\ DOMAIN s = 1 .. Len(s)
    BY <1>3, HeadTailProperties, EmptySeq, LenProperties
  <2>2. DOMAIN Tail(s) = 1 .. Len(s) - 1
    BY <2>1, LenProperties
  <2>3. AllOf(s, d) => AllOf(Tail(s), d)
    BY <2>1, <2>2 DEF AllOf
  <2>4. QED BY <1>1, <2>1, <2>3 DEF Stack!Push
<1>4. QED BY <1>2, <1>3

\* The top of a stack and the rest.
LEMMA PopEntries ==
    ASSUME NEW s \in Seq(Entry), s # <<>>, NEW d
    PROVE  /\ Stack!Pop(s) \in Seq(Entry) /\ Stack!Top(s) \in Entry
           /\ AllOf(s, d) => AllOf(Stack!Pop(s), d) /\ Stack!Top(s).state.doc = d
<1> DEFINE n == Len(s) - 1
           p == SubSeq(s, 1, n)
<1>1. n \in Nat /\ DOMAIN s = 1 .. n + 1 /\ \A i \in 1 .. n + 1 : s[i] \in Entry
  BY EmptySeq, ElementOfSeq, LenProperties
<1>2. Stack!Top(s) = s[n + 1] /\ Stack!Pop(s) = p
  BY <1>1 DEF Stack!Top, Stack!Pop
<1> HIDE DEF n
<1>3. /\ p \in Seq(Entry)
      /\ Len(p) = IF 1 <= n THEN n - 1 + 1 ELSE 0
      /\ \A i \in 1 .. n - 1 + 1 : p[i] = s[1 + i - 1]
  BY <1>1, SubSeqProperties
<1>4. DOMAIN p = 1 .. n /\ \A i \in 1 .. n : p[i] = s[i]
  BY <1>1, <1>3, LenProperties
<1> HIDE DEF p
<1>5. QED BY <1>1, <1>2, <1>3, <1>4 DEF AllOf

\* What a step does to the undo stack: types, and whose states it holds.
StackStep ==
    /\ undo' \in Seq(Entry) /\ redo' \in Seq(Entry)
    /\ lastKey' \in Keys \cup {NoKey} /\ elapsed' \in 0 .. Window
    /\ live' \in States

Inherits ==
    \A d : live.doc = d /\ AllOf(undo, d) /\ AllOf(redo, d)
              => live'.doc = d /\ AllOf(undo', d) /\ AllOf(redo', d)

\* The stack's part of the types.
LEMMA StackTypes ==
    ASSUME TypeOK
    PROVE  /\ undo \in Seq(Entry) /\ redo \in Seq(Entry)
           /\ lastKey \in Keys \cup {NoKey} /\ elapsed \in 0 .. Window
           /\ live \in States /\ live.body \in Bodies /\ live.doc \in Docs
           /\ 0 \in 0 .. Window /\ Window \in 0 .. Window
BY DocumentAssumption DEF TypeOK, Stack!TypeOK, Stack!Entry, Entry, States

\* An empty stack holds no state of any document.
LEMMA EmptyEntries == <<>> \in Seq(Entry) /\ \A d : AllOf(<<>>, d)
BY DEF AllOf

\* A checkpoint and the change after it.
LEMMA CheckpointStep ==
    ASSUME TypeOK, NEW key \in Keys \cup {NoKey}, Checkpoint(key), NEW b \in Bodies, Become(b)
    PROVE  StackStep /\ Inherits
<1>1. live' \in States /\ live'.doc = live.doc
  BY StackTypes DEF Become, States
<1>2. PICK l \in Labels : Stack!Checkpoint(live, l, key)
  BY DEF Checkpoint
<1>3. CASE Stack!Coalesces(key) /\ UNCHANGED <<undo, redo, lastKey>> /\ elapsed' = 0
  BY <1>1, <1>3, StackTypes DEF StackStep, Inherits
<1>4. CASE /\ undo' = Stack!Push(undo, [state |-> live, label |-> l])
           /\ redo' = <<>> /\ lastKey' = key /\ elapsed' = 0
  <2> DEFINE e == [state |-> live, label |-> l]
  <2>1. e \in Entry /\ e.state = live
    BY StackTypes DEF Entry
  <2> HIDE DEF e
  <2>2. undo' = Stack!Push(undo, e)
    BY <1>4 DEF e
  <2>3. /\ undo' \in Seq(Entry)
        /\ \A d : AllOf(undo, d) /\ live.doc = d => AllOf(undo', d)
    BY <2>1, <2>2, StackTypes, PushEntries
  <2>4. QED BY <1>1, <1>4, <2>3, StackTypes, EmptyEntries DEF StackStep, Inherits
<1>5. QED BY <1>2, <1>3, <1>4 DEF Stack!Checkpoint

\* Undo and redo move an entry from one stack to the other.
LEMMA UndoStep == ASSUME TypeOK, Stack!Undo PROVE StackStep /\ Inherits
<1>1. /\ undo # <<>> /\ undo' = Stack!Pop(undo) /\ live' = Stack!Top(undo).state
      /\ redo' = Append(redo, [state |-> live, label |-> Stack!Top(undo).label])
      /\ lastKey' = NoKey /\ elapsed' = elapsed
  BY DEF Stack!Undo, Stack!TakeBack
<1>2. /\ undo' \in Seq(Entry) /\ Stack!Top(undo) \in Entry
      /\ \A d : AllOf(undo, d) => AllOf(undo', d) /\ Stack!Top(undo).state.doc = d
  BY <1>1, StackTypes, PopEntries
<1> DEFINE e == [state |-> live, label |-> Stack!Top(undo).label]
<1>3. e \in Entry /\ e.state = live
  BY <1>2, StackTypes DEF Entry
<1> HIDE DEF e
<1>4. redo' = Append(redo, e)
  BY <1>1 DEF e
<1>5. redo' \in Seq(Entry) /\ \A d : AllOf(redo, d) /\ live.doc = d => AllOf(redo', d)
  BY <1>3, <1>4, StackTypes, PushEntries
<1>6. live' \in States
  BY <1>1, <1>2 DEF Entry
<1>7. QED BY <1>1, <1>2, <1>5, <1>6, StackTypes DEF StackStep, Inherits

\* The same for redo.
LEMMA RedoStep == ASSUME TypeOK, Stack!Redo PROVE StackStep /\ Inherits
<1>1. /\ redo # <<>> /\ redo' = Stack!Pop(redo) /\ live' = Stack!Top(redo).state
      /\ undo' = Append(undo, [state |-> live, label |-> Stack!Top(redo).label])
      /\ lastKey' = NoKey /\ elapsed' = elapsed
  BY DEF Stack!Redo, Stack!PutBack
<1>2. /\ redo' \in Seq(Entry) /\ Stack!Top(redo) \in Entry
      /\ \A d : AllOf(redo, d) => AllOf(redo', d) /\ Stack!Top(redo).state.doc = d
  BY <1>1, StackTypes, PopEntries
<1> DEFINE e == [state |-> live, label |-> Stack!Top(redo).label]
<1>3. e \in Entry /\ e.state = live
  BY <1>2, StackTypes DEF Entry
<1> HIDE DEF e
<1>4. undo' = Append(undo, e)
  BY <1>1 DEF e
<1>5. undo' \in Seq(Entry) /\ \A d : AllOf(undo, d) /\ live.doc = d => AllOf(undo', d)
  BY <1>3, <1>4, StackTypes, PushEntries
<1>6. live' \in States
  BY <1>1, <1>2 DEF Entry
<1>7. QED BY <1>1, <1>2, <1>5, <1>6, StackTypes DEF StackStep, Inherits

-----------------------------------------------------------------------------
\* The steps by what they change.

\* Edits of the workbook: by a command, by undo and redo, by the console.
Editing == \/ \E b \in Bodies, k \in Keys : CommitCell(b, k)
           \/ \E b \in Bodies : Command(b) \/ Mutate(b) \/ DeleteSheet(b)
           \/ Undo \/ Redo \/ OnReply

\* Steps of the console's process and of the clock.
Aside == RunConsole \/ (\E b \in Bodies : Answer(b)) \/ Crash \/ Tick

\* What all edits have in common: the document counts as changed afterwards, or
\* its body is the same.
Changes == /\ UNCHANGED <<path, current, opened, io, overtaken>>
           /\ Touch
           /\ dirty' \in BOOLEAN
           /\ dirty' \/ (~ dirty /\ live'.body = live.body)
           /\ StackStep
           /\ astray' \in BOOLEAN /\ deleted' \in BOOLEAN
           /\ console' \in States \cup {Idle} /\ reply' \in States \cup {Idle}
           /\ astray' \/ (~ astray /\ (live.doc = current => Inherits))

\* Every edit is such a change.
LEMMA EditingChanges == ASSUME TypeOK, HistoryStaysInDocument, Editing PROVE Changes
<1>1. /\ dirty \in BOOLEAN /\ astray \in BOOLEAN /\ deleted \in BOOLEAN
      /\ console \in States \cup {Idle} /\ reply \in States \cup {Idle}
  BY DEF TypeOK
<1>2. ASSUME NEW b \in Bodies, Become(b)
      PROVE  live' \in States /\ live'.doc = live.doc /\ live'.body = b
  BY <1>2, StackTypes DEF Become, States
<1>3. CASE \E b \in Bodies, k \in Keys : CommitCell(b, k)
  BY <1>1, <1>3, CheckpointStep DEF CommitCell, Changes, shell
<1>4. CASE \E b \in Bodies : Command(b)
  <2>1. PICK b \in Bodies : Command(b)
    BY <1>4
  <2>2. dirty' \in BOOLEAN /\ (dirty' \/ (~ dirty /\ live'.body = live.body))
    BY <1>1, <1>2, <2>1 DEF Command
  <2>3. StackStep /\ Inherits
    BY <2>1, CheckpointStep DEF Command
  <2>4. QED BY <1>1, <2>1, <2>2, <2>3 DEF Command, Changes, shell
<1>5. CASE \E b \in Bodies : Mutate(b)
  <2>1. PICK b \in Bodies : Mutate(b)
    BY <1>5
  <2>2. StackStep /\ Inherits
    BY <1>2, <2>1, StackTypes DEF Mutate, StackStep, Inherits, stack
  <2>3. QED BY <1>1, <2>1, <2>2 DEF Mutate, Forgive, Changes, shell
<1>6. CASE \E b \in Bodies : DeleteSheet(b)
  <2>1. PICK b \in Bodies : DeleteSheet(b)
    BY <1>6
  <2>2. StackStep /\ Inherits
    BY <1>2, <2>1, StackTypes DEF DeleteSheet, StackStep, Inherits, stack
  <2>3. QED BY <1>1, <2>1, <2>2 DEF DeleteSheet, Changes, shell
<1>7. CASE Undo
  BY <1>1, <1>7, UndoStep DEF Undo, Changes, shell
<1>8. CASE Redo
  BY <1>1, <1>8, RedoStep DEF Redo, Changes, shell
<1>9. CASE OnReply
  <2>1. live' = reply /\ reply \in States
    BY <1>1, <1>9 DEF OnReply
  <2>2. StackStep
    BY <1>9, <2>1, StackTypes DEF OnReply, StackStep, stack
  <2>3. astray' \/ (~ astray /\ (live.doc = current => Inherits))
    BY <1>1, <1>9, <2>1 DEF OnReply, Inherits, stack
  <2>4. QED BY <1>1, <1>9, <2>2, <2>3 DEF OnReply, Forgive, Changes
<1>10. QED BY <1>3, <1>4, <1>5, <1>6, <1>7, <1>8, <1>9 DEF Editing

-----------------------------------------------------------------------------
\* Every step keeps the invariant.

\* The types, with the stack's part spelled out.
LEMMA TypeParts ==
    TypeOK <=> /\ undo \in Seq(Entry) /\ redo \in Seq(Entry)
               /\ lastKey \in Keys \cup {NoKey} /\ elapsed \in 0 .. Window
               /\ live \in States
               /\ path \in Paths \cup {NoPath} /\ dirty \in BOOLEAN
               /\ current \in Docs /\ opened \in Docs
               /\ disk \in [Paths -> Bodies \cup {NoFile}]
               /\ jobs \subseteq Jobs
               /\ callback \in [op : {"open", "save"}, path : Paths] \cup {Idle}
               /\ busy \in BOOLEAN
               /\ console \in States \cup {Idle} /\ reply \in States \cup {Idle}
               /\ touched \in BOOLEAN /\ overtaken \in BOOLEAN
               /\ astray \in BOOLEAN /\ deleted \in BOOLEAN
BY DEF TypeOK, Stack!TypeOK, Stack!Entry, Entry

\* The invariant holds at first.
LEMMA InitIInv == Init => IInv
<1> SUFFICES ASSUME Init PROVE IInv
  OBVIOUS
<1>1. 1 \in Docs /\ Fresh \in Bodies
  BY DocumentAssumption DEF Docs
<1>2. disk \in [Paths -> Bodies \cup {NoFile}]
  BY <1>1 DEF Init
<1>3. TypeOK
  <2>1. live \in States
    BY <1>1 DEF Init, States
  <2>2. undo \in Seq(Entry) /\ redo \in Seq(Entry)
    BY EmptyEntries DEF Init
  <2>3. elapsed \in 0 .. Window
    BY DocumentAssumption DEF Init
  <2>4. QED BY <1>1, <1>2, <2>1, <2>2, <2>3, TypeParts DEF Init
<1>4. HistoryStaysInDocument
  BY HistoryParts, EmptyEntries DEF Init
<1>5. QED
  BY <1>3, <1>4 DEF Init, IInv, OneJob, ResultMeetsCallback, RoomLeft, JobHolds,
                    SavedUnlessTouched

\* An edit keeps it: what was being saved is then touched, or the body is the same.
LEMMA EditingIInv == ASSUME IInv, Editing PROVE IInv'
<1>1. Changes
  BY EditingChanges DEF IInv
<1>2. UNCHANGED <<path, current, opened, jobs, callback, busy, disk, overtaken>>
  BY <1>1 DEF Changes, io
<1>3. TypeOK'
  <2>1. touched' \in BOOLEAN
    BY <1>1 DEF Changes, Touch
  <2>2. QED
    BY <1>1, <1>2, <2>1 DEF IInv, TypeOK, Changes, StackStep, Stack!TypeOK, Stack!Entry, Entry
<1>4. OneJob' /\ ResultMeetsCallback' /\ RoomLeft'
  BY <1>2 DEF IInv, OneJob, ResultMeetsCallback, RoomLeft
<1>5. JobHolds'
  <2>1. ASSUME NEW j \in jobs, j.op = "save", j.phase \in {"run", "result"},
               ~ touched' \/ (~ dirty' /\ path # NoPath)
        PROVE  j.data.body = live'.body
    <3>1. touched'
      BY <1>1, <2>1 DEF Changes, Touch, Saving
    <3>2. ~ dirty /\ path # NoPath /\ live'.body = live.body
      BY <1>1, <2>1, <3>1 DEF Changes
    <3>3. QED BY <2>1, <3>2 DEF IInv, JobHolds
  <2>2. QED BY <1>2, <2>1 DEF IInv, JobHolds
<1>6. SavedUnlessTouched'
  BY <1>1, <1>2 DEF IInv, SavedUnlessTouched, Changes
<1>7. HistoryStaysInDocument'
  BY <1>1, <1>2 DEF IInv, HistoryStaysInDocument, Changes, Inherits, AllOf
<1>8. QED BY <1>3, <1>4, <1>5, <1>6, <1>7 DEF IInv

\* The console's process and the clock touch nothing that it relates.
LEMMA AsideIInv == ASSUME IInv, Aside \/ UNCHANGED vars PROVE IInv'
<1>1. UNCHANGED <<undo, redo, live, path, dirty, current, opened, jobs, callback, busy, disk,
                  touched, overtaken, astray, deleted>>
  BY DEF Aside, RunConsole, Answer, Crash, Tick, Stack!Tick, vars, doc, stack, io, ghosts
<1>2. /\ lastKey' = lastKey /\ elapsed' \in 0 .. Window
      /\ console' \in States \cup {Idle} /\ reply' \in States \cup {Idle}
  <2>1. TypeOK
    BY DEF IInv
  <2>2. CASE Tick
    BY <2>1, <2>2, StackTypes, DocumentAssumption DEF Tick, Stack!Tick, shell, TypeOK
  <2>3. CASE RunConsole \/ Crash
    BY <2>1, <2>3, StackTypes DEF RunConsole, Crash, doc, stack, TypeOK
  <2>4. CASE \E b \in Bodies : Answer(b)
    BY <2>1, <2>4, StackTypes DEF Answer, doc, stack, TypeOK, States
  <2>5. CASE UNCHANGED vars
    BY <2>1, <2>5, StackTypes DEF vars, doc, stack, shell, TypeOK
  <2>6. QED BY <2>2, <2>3, <2>4, <2>5 DEF Aside
<1>3. TypeOK'
  BY <1>1, <1>2 DEF IInv, TypeOK, Stack!TypeOK
<1>4. QED
  BY <1>1, <1>3 DEF IInv, OneJob, ResultMeetsCallback, RoomLeft, JobHolds,
                    SavedUnlessTouched, HistoryStaysInDocument

\* A document that replaces another starts with an empty history.
LEMMA ReplaceTypes ==
    ASSUME TypeOK, opened < MaxDocs, NEW b \in Bodies, NEW p \in Paths \cup {NoPath},
           Replace(b, p)
    PROVE  /\ undo' \in Seq(Entry) /\ redo' \in Seq(Entry)
           /\ lastKey' \in Keys \cup {NoKey} /\ elapsed' \in 0 .. Window
           /\ live' \in States /\ live'.body = b /\ live'.doc = current'
           /\ path' \in Paths \cup {NoPath} /\ path' = p
           /\ dirty' \in BOOLEAN /\ overtaken' \in BOOLEAN /\ deleted' \in BOOLEAN
           /\ current' \in Docs /\ opened' = opened + 1 /\ opened' \in Docs
           /\ \A d : AllOf(undo', d) /\ AllOf(redo', d)
<1>1. opened' \in Docs /\ current' = opened' /\ opened' = opened + 1
  BY DocumentAssumption DEF Replace, TypeOK, Docs
<1>2. live' \in States /\ live'.body = b /\ live'.doc = current'
  BY <1>1 DEF Replace, States
<1>3. undo' = <<>> /\ redo' = <<>> /\ lastKey' = NoKey /\ elapsed' = Window
  BY DEF Replace, Stack!Wipe
<1>4. undo' \in Seq(Entry) /\ redo' \in Seq(Entry) /\ \A d : AllOf(undo', d) /\ AllOf(redo', d)
  BY <1>3, EmptyEntries
<1>5. lastKey' \in Keys \cup {NoKey} /\ elapsed' \in 0 .. Window
  BY <1>3, StackTypes
<1>6. /\ path' \in Paths \cup {NoPath} /\ path' = p
      /\ dirty' \in BOOLEAN /\ overtaken' \in BOOLEAN /\ deleted' \in BOOLEAN
  BY DEF Replace
<1>7. QED BY <1>1, <1>2, <1>4, <1>5, <1>6

\* Room for a document, those being opened counted: one more than they need.
LEMMA RoomMeans ==
    ASSUME TypeOK, OneJob, Room
    PROVE  /\ opened < MaxDocs
           /\ \A j \in jobs : j.op = "open" /\ j.phase # "finished" => opened + 1 < MaxDocs
<1> DEFINE open == {j \in jobs : j.op = "open" /\ j.phase # "finished"}
<1>1. opened \in Nat /\ MaxDocs \in Nat /\ opened + Cardinality(open) < MaxDocs
  BY DocumentAssumption DEF TypeOK, Docs, Room
<1>2. CASE open = {}
  BY <1>1, <1>2, FS_EmptySet
<1>3. CASE open # {}
  <2>1. PICK j \in open : TRUE
    BY <1>3
  <2>2. open = {j}
    BY <2>1 DEF OneJob
  <2>3. Cardinality(open) = 1
    BY <2>2, FS_Singleton
  <2>4. QED BY <1>1, <2>3
<1>4. QED BY <1>2, <1>3

\* File > New: a document without a path is in no file, and the save of the old
\* one is touched.
LEMMA NewDocumentIInv == ASSUME IInv, NewDocument PROVE IInv'
<1>1. TypeOK /\ OneJob /\ opened < MaxDocs
  BY RoomMeans DEF IInv, NewDocument
<1>2. Replace(Fresh, NoPath) /\ Touch /\ UNCHANGED <<jobs, callback, busy, disk, console, reply, astray>>
  BY DEF NewDocument, io, shell
<1>3. Fresh \in Bodies
  BY DocumentAssumption
<1>4. touched' \in BOOLEAN
  BY <1>2 DEF Touch
<1>5. TypeOK'
  BY <1>1, <1>2, <1>3, <1>4, ReplaceTypes DEF TypeOK, Stack!TypeOK, Stack!Entry, Entry
<1>6. OneJob' /\ ResultMeetsCallback'
  BY <1>2 DEF IInv, OneJob, ResultMeetsCallback
<1>7. RoomLeft'
  BY <1>1, <1>2, <1>3, ReplaceTypes, RoomMeans DEF NewDocument, RoomLeft
<1>8. JobHolds'
  <2>1. path' = NoPath
    BY <1>2 DEF Replace
  <2>2. ASSUME NEW j \in jobs, j.op = "save", j.phase \in {"run", "result"}
        PROVE  touched'
    BY <1>2, <2>2 DEF Touch, Saving
  <2>3. QED BY <1>2, <2>1, <2>2 DEF IInv, JobHolds
<1>9. SavedUnlessTouched'
  BY <1>2 DEF Replace, SavedUnlessTouched
<1>10. HistoryStaysInDocument'
  BY <1>1, <1>2, <1>3, ReplaceTypes DEF HistoryStaysInDocument, AllOf
<1>11. QED BY <1>5, <1>6, <1>7, <1>8, <1>9, <1>10 DEF IInv

\* An open or a save starts when none is under way, and it becomes the only one.
LEMMA RunIoIInv ==
    ASSUME IInv, NEW op \in {"open", "save"}, NEW p \in Paths, NEW data \in States \cup {Idle},
           RunIo(op, p, data), UNCHANGED <<doc, shell, ghosts>>,
           op = "open" => opened < MaxDocs, op = "save" => data = live
    PROVE  IInv'
<1> DEFINE j == [op |-> op, path |-> p, data |-> data, phase |-> "run", result |-> NoFile]
<1>1. jobs = {} /\ jobs' = jobs \cup {j}
  BY DEF RunIo, IInv, OneJob
<1>2. jobs' = {j} /\ busy' = TRUE /\ callback' = [op |-> op, path |-> p] /\ disk' = disk
  BY <1>1 DEF RunIo
<1>3. /\ UNCHANGED <<undo, redo, lastKey, elapsed, live, path, dirty, current, opened>>
      /\ UNCHANGED <<console, reply, touched, overtaken, astray, deleted>>
  BY DEF doc, stack, shell, ghosts
<1>4. j \in Jobs /\ j.op = op /\ j.path = p /\ j.data = data /\ j.phase = "run"
  BY DEF Jobs
<1> HIDE DEF j
<1>5. TypeOK'
  <2>1. jobs' \subseteq Jobs /\ callback' \in [op : {"open", "save"}, path : Paths] \cup {Idle}
    BY <1>2, <1>4
  <2>2. QED BY <1>2, <1>3, <2>1 DEF IInv, TypeOK, Stack!TypeOK
<1>6. OneJob' /\ ResultMeetsCallback' /\ RoomLeft'
  BY <1>2, <1>3, <1>4 DEF OneJob, ResultMeetsCallback, RoomLeft
<1>7. JobHolds'
  BY <1>2, <1>3, <1>4, StackTypes DEF IInv, JobHolds
<1>8. SavedUnlessTouched' /\ HistoryStaysInDocument'
  BY <1>2, <1>3 DEF IInv, SavedUnlessTouched, HistoryStaysInDocument
<1>9. QED BY <1>5, <1>6, <1>7, <1>8 DEF IInv

\* Open and Save are such starts.
LEMMA StartIInv ==
    ASSUME IInv, NEW p \in Paths, StartOpen(p) \/ StartSave(p)
    PROVE  IInv'
<1>1. CASE StartOpen(p)
  <2>1. opened < MaxDocs
    BY <1>1, RoomMeans DEF StartOpen, IInv
  <2>2. QED BY <1>1, <2>1, RunIoIInv DEF StartOpen
<1>2. CASE StartSave(p)
  BY <1>2, StackTypes, RunIoIInv DEF StartSave, IInv
<1>3. QED BY <1>1, <1>2

\* A posted event is the only job's next phase.
LEMMA PostOne ==
    ASSUME IInv, NEW j \in jobs,
           NEW phase \in {"run", "result", "error", "finished"},
           NEW result \in Bodies \cup {NoFile}, Post(j, phase, result)
    PROVE  /\ jobs = {j}
           /\ \E k \in Jobs :
                 /\ jobs' = {k}
                 /\ k.op = j.op /\ k.path = j.path /\ k.data = j.data
                 /\ k.phase = phase /\ k.result = result
<1> DEFINE k == [j EXCEPT !.phase = phase, !.result = result]
<1>1. jobs = {j} /\ j \in Jobs
  BY DEF IInv, OneJob, TypeOK
<1>2. /\ k \in Jobs /\ k.op = j.op /\ k.path = j.path /\ k.data = j.data
      /\ k.phase = phase /\ k.result = result
  BY <1>1 DEF Jobs
<1>3. jobs' = {k}
  BY <1>1 DEF Post
<1>4. QED BY <1>1, <1>2, <1>3

\* The worker thread: while it runs the callback stays its own, and a file
\* it has written holds what the window shows unless the document was touched.
LEMMA WorkIInv == ASSUME IInv, NEW j \in jobs, Work(j) PROVE IInv'
<1>1. /\ UNCHANGED <<undo, redo, lastKey, elapsed, live, path, dirty, current, opened>>
      /\ UNCHANGED <<callback, busy, console, reply, touched, overtaken, astray, deleted>>
      /\ j.phase = "run" /\ j \in Jobs
      /\ disk \in [Paths -> Bodies \cup {NoFile}]
  BY DEF Work, doc, stack, shell, ghosts, IInv, TypeOK
<1>2. CASE j.op = "open" /\ disk[j.path] # NoFile /\ Post(j, "result", disk[j.path])
           /\ UNCHANGED disk
  <2>1. j.path \in Paths /\ disk[j.path] \in Bodies
    BY <1>1, <1>2 DEF Jobs
  <2>2. PICK k \in Jobs : /\ jobs = {j} /\ jobs' = {k}
                           /\ k.op = j.op /\ k.path = j.path /\ k.data = j.data
                           /\ k.phase = "result" /\ k.result = disk[j.path]
    BY <1>2, <2>1, PostOne
  <2>3. TypeOK'
    BY <1>1, <1>2, <2>2 DEF IInv, TypeOK, Stack!TypeOK
  <2>4. OneJob' /\ ResultMeetsCallback' /\ RoomLeft'
    BY <1>1, <2>2 DEF IInv, OneJob, ResultMeetsCallback, RoomLeft
  <2>5. JobHolds'
    BY <1>1, <1>2, <2>1, <2>2 DEF JobHolds
  <2>6. SavedUnlessTouched' /\ HistoryStaysInDocument'
    BY <1>1, <1>2 DEF IInv, SavedUnlessTouched, HistoryStaysInDocument
  <2>7. QED BY <2>3, <2>4, <2>5, <2>6 DEF IInv
<1>3. CASE /\ j.op = "save" /\ disk' = [disk EXCEPT ![j.path] = j.data.body]
           /\ Post(j, "result", j.data.body)
  <2>1. /\ j.path \in Paths /\ j.data \in States /\ j.data.body \in Bodies
        /\ ~ touched \/ (~ dirty /\ path # NoPath) => j.data.body = live.body
    BY <1>1, <1>3 DEF IInv, JobHolds, Jobs, States
  <2>2. PICK k \in Jobs : /\ jobs = {j} /\ jobs' = {k}
                           /\ k.op = j.op /\ k.path = j.path /\ k.data = j.data
                           /\ k.phase = "result" /\ k.result = j.data.body
    BY <1>3, <2>1, PostOne
  <2>3. /\ disk' \in [Paths -> Bodies \cup {NoFile}] /\ disk'[j.path] = j.data.body
        /\ \A p \in Paths \ {j.path} : disk'[p] = disk[p]
    BY <1>1, <1>3, <2>1
  <2>4. TypeOK'
    BY <1>1, <2>2, <2>3 DEF IInv, TypeOK, Stack!TypeOK
  <2>5. OneJob' /\ ResultMeetsCallback' /\ RoomLeft'
    BY <1>1, <1>3, <2>2 DEF IInv, OneJob, ResultMeetsCallback, RoomLeft
  <2>6. JobHolds'
    BY <1>1, <1>3, <2>1, <2>2, <2>3 DEF JobHolds
  <2>7. SavedUnlessTouched'
    <3>1. SUFFICES ASSUME ~ dirty, path # NoPath, ~ overtaken PROVE disk'[path] = live.body
      BY <1>1 DEF SavedUnlessTouched
    <3>2. path \in Paths /\ disk[path] = live.body
      BY <3>1 DEF IInv, TypeOK, SavedUnlessTouched
    <3>3. QED BY <2>1, <2>3, <3>1, <3>2
  <2>8. HistoryStaysInDocument'
    BY <1>1 DEF IInv, HistoryStaysInDocument
  <2>9. QED BY <2>4, <2>5, <2>6, <2>7, <2>8 DEF IInv
<1>4. CASE Post(j, "error", NoFile) /\ UNCHANGED disk
  <2>1. PICK k \in Jobs : /\ jobs = {j} /\ jobs' = {k}
                           /\ k.op = j.op /\ k.path = j.path /\ k.data = j.data
                           /\ k.phase = "error" /\ k.result = NoFile
    BY <1>4, PostOne
  <2>2. TypeOK'
    BY <1>1, <1>4, <2>1 DEF IInv, TypeOK, Stack!TypeOK
  <2>3. OneJob' /\ ResultMeetsCallback' /\ RoomLeft'
    BY <1>1, <2>1 DEF IInv, OneJob, ResultMeetsCallback, RoomLeft
  <2>4. JobHolds'
    BY <1>1, <1>4, <2>1 DEF IInv, JobHolds
  <2>5. SavedUnlessTouched' /\ HistoryStaysInDocument'
    BY <1>1, <1>4 DEF IInv, SavedUnlessTouched, HistoryStaysInDocument
  <2>6. QED BY <2>2, <2>3, <2>4, <2>5 DEF IInv
<1>5. QED BY <1>2, <1>3, <1>4 DEF Work

\* A job whose result has been handled promises nothing any more.
LEMMA FinishedHolds ==
    ASSUME IInv, NEW j \in jobs, Post(j, "finished", NoFile), UNCHANGED <<callback, busy, disk>>
    PROVE  jobs = {j} /\ jobs' \subseteq Jobs /\ OneJob' /\ ResultMeetsCallback'
           /\ RoomLeft' /\ JobHolds'
<1>1. PICK k \in Jobs : /\ jobs = {j} /\ jobs' = {k}
                         /\ k.op = j.op /\ k.path = j.path /\ k.data = j.data
                         /\ k.phase = "finished" /\ k.result = NoFile
  BY PostOne
<1>2. OneJob' /\ ResultMeetsCallback' /\ RoomLeft'
  BY <1>1 DEF IInv, OneJob, ResultMeetsCallback, RoomLeft
<1>3. JobHolds'
  BY <1>1 DEF IInv, JobHolds
<1>4. QED BY <1>1, <1>2, <1>3

\* The result is handled by its own callback.
LEMMA OnResultIInv == ASSUME IInv, NEW j \in jobs, OnResult(j) PROVE IInv'
<1>1. /\ UNCHANGED <<callback, busy, disk, console, reply, astray>> /\ touched' = FALSE
      /\ j.phase = "result" /\ j \in Jobs /\ TypeOK
      /\ callback = [op |-> j.op, path |-> j.path]
  BY DEF OnResult, shell, IInv, TypeOK, ResultMeetsCallback
<1>2. /\ jobs = {j} /\ jobs' \subseteq Jobs /\ OneJob' /\ ResultMeetsCallback'
      /\ RoomLeft' /\ JobHolds'
  BY <1>1, FinishedHolds DEF OnResult
<1>3. callback.op = j.op /\ callback.path = j.path /\ j.path \in Paths
  BY <1>1 DEF Jobs
<1>4. CASE callback.op = "open" /\ Replace(j.result, callback.path)
  <2>1. j.result \in Bodies /\ disk[j.path] = j.result /\ opened < MaxDocs
    BY <1>1, <1>3, <1>4 DEF IInv, JobHolds, RoomLeft
  <2>2. Replace(j.result, j.path) /\ j.path \in Paths \cup {NoPath}
    BY <1>3, <1>4
  <2>3. TypeOK'
    BY <1>1, <1>2, <2>1, <2>2, ReplaceTypes DEF TypeOK, Stack!TypeOK, Stack!Entry, Entry
  <2>4. SavedUnlessTouched'
    BY <1>1, <2>1, <2>2, ReplaceTypes DEF SavedUnlessTouched
  <2>5. HistoryStaysInDocument'
    BY <1>1, <2>1, <2>2, ReplaceTypes DEF HistoryStaysInDocument, AllOf
  <2>6. QED BY <1>2, <2>3, <2>4, <2>5 DEF IInv
<1>5. CASE /\ callback.op = "save" /\ path' = callback.path /\ dirty' = FALSE
           /\ overtaken' = touched /\ UNCHANGED <<stack, live, current, opened, deleted>>
  <2>1. UNCHANGED <<undo, redo, lastKey, elapsed, live, current, opened, deleted>>
    BY <1>5 DEF stack
  <2>2. disk[j.path] = j.data.body /\ (~ touched => j.data.body = live.body)
    BY <1>1, <1>3, <1>5 DEF IInv, JobHolds
  <2>3. TypeOK'
    BY <1>1, <1>2, <1>3, <1>5, <2>1 DEF TypeOK, Stack!TypeOK
  <2>4. SavedUnlessTouched'
    BY <1>1, <1>3, <1>5, <2>1, <2>2 DEF SavedUnlessTouched
  <2>5. HistoryStaysInDocument'
    BY <1>1, <2>1 DEF IInv, HistoryStaysInDocument
  <2>6. QED BY <1>2, <2>3, <2>4, <2>5 DEF IInv
<1>6. CASE UNCHANGED <<doc, overtaken, deleted>>
  <2>1. UNCHANGED <<undo, redo, lastKey, elapsed, live, path, dirty, current, opened,
                    overtaken, deleted>>
    BY <1>6 DEF doc, stack
  <2>2. TypeOK'
    BY <1>1, <1>2, <2>1, ZenonT(30) DEF TypeOK, Stack!TypeOK
  <2>3. SavedUnlessTouched' /\ HistoryStaysInDocument'
    BY <1>1, <2>1 DEF IInv, SavedUnlessTouched, HistoryStaysInDocument
  <2>4. QED BY <1>2, <2>2, <2>3 DEF IInv
<1>7. QED BY <1>4, <1>5, <1>6 DEF OnResult

\* An error and the end of the thread leave the document as it is.
LEMMA EndIInv == ASSUME IInv, NEW j \in jobs, OnError(j) \/ OnDone(j) PROVE IInv'
<1>1. /\ UNCHANGED <<undo, redo, lastKey, elapsed, live, path, dirty, current, opened>>
      /\ UNCHANGED <<disk, console, reply, overtaken, astray, deleted>>
  BY DEF OnError, OnDone, doc, stack, shell, ghosts
<1>2. SavedUnlessTouched' /\ HistoryStaysInDocument'
  BY <1>1 DEF IInv, SavedUnlessTouched, HistoryStaysInDocument
<1>3. CASE OnError(j)
  <2>1. UNCHANGED <<callback, busy>> /\ touched' = FALSE
    BY <1>3 DEF OnError
  <2>2. /\ jobs' \subseteq Jobs /\ OneJob' /\ ResultMeetsCallback'
        /\ RoomLeft' /\ JobHolds'
    BY <1>1, <1>3, <2>1, FinishedHolds DEF OnError
  <2>3. TypeOK'
    BY <1>1, <2>1, <2>2, ZenonT(30) DEF IInv, TypeOK, Stack!TypeOK
  <2>4. QED BY <1>2, <2>2, <2>3 DEF IInv
<1>4. CASE OnDone(j)
  <2>1. callback' = Idle /\ busy' = FALSE /\ touched' = touched /\ jobs' = {}
    BY <1>4 DEF OnDone, ghosts, IInv, OneJob
  <2>2. TypeOK'
    BY <1>1, <2>1 DEF IInv, TypeOK, Stack!TypeOK
  <2>3. OneJob' /\ ResultMeetsCallback' /\ RoomLeft' /\ JobHolds'
    BY <2>1 DEF OneJob, ResultMeetsCallback, RoomLeft, JobHolds
  <2>4. QED BY <1>2, <2>2, <2>3 DEF IInv
<1>5. QED BY <1>3, <1>4

\* Every step keeps the invariant.
LEMMA NextIInv == IInv /\ [Next]_vars => IInv'
<1> SUFFICES ASSUME IInv, [Next]_vars PROVE IInv'
  OBVIOUS
<1>1. CASE Editing
  BY <1>1, EditingIInv
<1>2. CASE Aside \/ UNCHANGED vars
  BY <1>2, AsideIInv
<1>3. CASE NewDocument
  BY <1>3, NewDocumentIInv
<1>4. CASE \E p \in Paths : StartOpen(p) \/ StartSave(p)
  BY <1>4, StartIInv
<1>5. CASE Worker
  BY <1>5, WorkIInv DEF Worker
<1>6. CASE EventLoop
  BY <1>6, OnResultIInv, EndIInv DEF EventLoop
<1>7. QED BY <1>1, <1>2, <1>3, <1>4, <1>5, <1>6 DEF Next, Editing, Aside

\* The invariant of the document, of its opens and saves, and of the console.
THEOREM DocInvariant == Spec => []IInv
<1>1. QED BY InitIInv, NextIInv, PTL DEF Spec

\* Every reachable state is well typed.
THEOREM DocTypes == Spec => []TypeOK
<1>1. IInv => TypeOK
  BY DEF IInv
<1>2. QED BY <1>1, DocInvariant, PTL

\* A document that counts as saved is what its file holds, through edits, undo,
\* failed saves and console results, unless it was touched during that save.
THEOREM SavedIsSaved == Spec => []SavedUnlessTouched
<1>1. IInv => SavedUnlessTouched
  BY DEF IInv
<1>2. QED BY <1>1, DocInvariant, PTL

\* Undo and redo stay in the document, over any number of documents.
THEOREM OwnHistory == Spec => []HistoryStaysInDocument
<1>1. IInv => HistoryStaysInDocument
  BY DEF IInv
<1>2. QED BY <1>1, DocInvariant, PTL

\* A result meets the callback registered for it.
THEOREM OwnCallback == Spec => []ResultMeetsCallback
<1>1. IInv => ResultMeetsCallback
  BY DEF IInv
<1>2. QED BY <1>1, DocInvariant, PTL
=============================================================================
