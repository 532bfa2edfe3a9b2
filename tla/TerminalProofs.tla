--------------------------- MODULE TerminalProofs ---------------------------
(***************************************************************************)
(* Proofs about the two parts that have to do with terminals.              *)
(*                                                                         *)
(* PtyTerminal, for any amount of output, of keys, of room in the terminal *)
(* and of the other thread's file: the reader takes what was written, and  *)
(* at most one chunk besides.                                              *)
(*                                                                         *)
(* TuiEditor, for any number of rows, any texts and any number of          *)
(* commands: clean means saved, and what was recorded replays.             *)
(*                                                                         *)
(* The last rests on an induction over the writes of one command, for      *)
(* which a number of writes with a counterexample would have a least.      *)
(***************************************************************************)
EXTENDS PtyTerminal, TuiEditor, SequenceTheorems, FiniteSetTheorems, WellFoundedInduction, TLAPS

-----------------------------------------------------------------------------
(***************************************************************************)
(* PtyTerminal                                                             *)
(***************************************************************************)
Steps == {"none", "begin", "top", "select", "alive", "read", "feed", "ended"}

Types == /\ written \in Nat
         /\ pty \in Seq(Nat) /\ Len(pty) <= written
         /\ screen \in Seq(Nat)
         /\ reader \in [at : Steps, data : Seq(Nat)]

\* The reader has something in its hand only on its way to the screen, or when
\* the emulator has ended it.
HandIsEmpty == reader.at \notin {"feed", "ended"} => reader.data = <<>>

\* _stop comes first, then the descriptor, then another file may take it.
StopComesFirst == /\ fd \in {"file", "pipe"} => stop
                  /\ stop => gui \in {"close", "join", "closed"}

\* There is one reader, and it begins with the terminal.
StartsOnce == gui = "new" => reader.at = "none"

\* After a chunk of the other file the reader goes to the end of its loop.
StrayIsLast ==
    Len(Taken) = written - Len(pty) + 1 =>
        fd # "pty" /\ reader.at \in {"feed", "top", "ended"}

IInv == /\ Types
        /\ HandIsEmpty
        /\ StopComesFirst
        /\ StartsOnce
        /\ StrayIsLast
        /\ TakesWhatWasWritten

\* What was taken is a sequence of chunks.
LEMMA TakenIsSeq ==
    ASSUME Types
    PROVE  /\ Taken \in Seq(Nat) /\ Len(Taken) \in Nat /\ Len(pty) \in Nat
           /\ reader.data \in Seq(Nat)
           /\ reader.data = <<>> => Taken = screen
           /\ \A i \in 1 .. Len(pty) : pty[i] \in Nat
BY ConcatProperties, ConcatEmptySeq, LenProperties, ElementOfSeq DEF Types, Taken

\* What the invariant says of the chunks, in the numbers that follow it.
LEMMA Chunks ==
    ASSUME IInv, NEW own, own = written - Len(pty)
    PROVE  /\ own \in Nat /\ written \in Nat /\ Len(pty) \in Nat /\ own + Len(pty) = written
           /\ Len(Taken) \in {own, own + 1}
           /\ \A i \in 1 .. own : Taken[i] = i
           /\ \A i \in 1 .. Len(pty) : pty[i] = own + i /\ pty[i] \in Nat
           /\ Len(Taken) = own + 1 =>
                  /\ Taken[own + 1] = Foreign /\ stop
                  /\ fd # "pty" /\ reader.at \in {"feed", "top", "ended"}
<1>1. Types /\ StrayIsLast /\ TakesWhatWasWritten
  BY DEF IInv
<1>2. own \in Nat /\ written \in Nat /\ Len(pty) \in Nat /\ own + Len(pty) = written
  BY <1>1, TakenIsSeq DEF Types
<1>3. Len(Taken) \in own .. own + 1
  BY <1>1 DEF TakesWhatWasWritten
<1>4. Len(Taken) \in {own, own + 1}
  BY <1>2, <1>3
<1>5. \A i \in 1 .. Len(pty) : pty[i] \in Nat
  BY <1>1, TakenIsSeq
<1> QED BY <1>1, <1>2, <1>4, <1>5 DEF TakesWhatWasWritten, StrayIsLast

LEMMA InitInv == PtyInit => IInv
<1> SUFFICES ASSUME PtyInit PROVE IInv
  OBVIOUS
<1>1. Types
  BY EmptySeq DEF PtyInit, Types, Steps
<1>2. Taken = <<>> /\ Len(Taken) = 0 /\ Len(pty) = 0
  BY <1>1, TakenIsSeq, EmptySeq DEF PtyInit
<1> QED
  BY <1>1, <1>2 DEF PtyInit, IInv, HandIsEmpty, StopComesFirst, StartsOnce, StrayIsLast, TakesWhatWasWritten

\* A step that moves no chunk keeps the invariant, if it keeps to the order of
\* closing and sends a reader that has strayed nowhere but to its end.
LEMMA NoChunkMoves ==
    ASSUME IInv, UNCHANGED <<written, pty, screen>>, reader' \in [at : Steps, data : {reader.data}],
           HandIsEmpty', StopComesFirst', StartsOnce', stop => stop',
           fd' = "pty" => fd = "pty" \/ ~ stop,
           reader.at \in {"feed", "top", "ended"} =>
               reader'.at \in {"feed", "top", "ended"} \/ ~ stop
    PROVE  IInv'
<1>1. Types'
  BY DEF IInv, Types
<1>2. Taken' = Taken
  BY DEF Taken
<1>3. TakesWhatWasWritten'
  BY <1>2 DEF IInv, TakesWhatWasWritten
<1>4. StrayIsLast'
  <2>1. Len(Taken) = written - Len(pty) + 1 => stop
    BY DEF IInv, TakesWhatWasWritten
  <2> QED BY <1>2, <2>1 DEF IInv, StrayIsLast
<1> QED BY <1>1, <1>3, <1>4 DEF IInv

\* A numbered chunk more in the terminal, as long as the descriptor is the
\* terminal's.
LEMMA OutputInv ==
    ASSUME IInv, written' = written + 1, pty' = Append(pty, written + 1), fd = "pty",
           UNCHANGED <<fd, stop, gui, screen, reader>>
    PROVE  IInv'
<1>1. /\ Types /\ Len(pty) \in Nat /\ written + 1 \in Nat
      /\ pty' = Append(pty, written + 1) /\ written' = written + 1
  BY TakenIsSeq DEF IInv, Types
<1>2. /\ pty' \in Seq(Nat) /\ Len(pty') = Len(pty) + 1
      /\ \A i \in 1 .. Len(pty) : pty'[i] = pty[i]
      /\ pty'[Len(pty) + 1] = written + 1
  BY <1>1, AppendProperties DEF Types
<1>3. Types' /\ Taken' = Taken
  BY <1>1, <1>2 DEF Types, Taken
<1>4. written' - Len(pty') = written - Len(pty)
  BY <1>1, <1>2 DEF Types
<1>5. ASSUME NEW i \in 1 .. Len(pty') PROVE pty'[i] = (written - Len(pty)) + i
  <2>1. CASE i = Len(pty) + 1
    BY <2>1, <1>1, <1>2, Chunks
  <2>2. CASE i # Len(pty) + 1
    <3>1. i \in 1 .. Len(pty)
      BY <2>2, <1>1, <1>2
    <3> QED BY <3>1, <1>2, Chunks
  <2> QED BY <2>1, <2>2
<1>6. TakesWhatWasWritten' /\ StrayIsLast'
  BY <1>3, <1>4, <1>5 DEF IInv, TakesWhatWasWritten, StrayIsLast
<1> QED BY <1>3, <1>6 DEF IInv, HandIsEmpty, StopComesFirst, StartsOnce

\* Chunks pass from the terminal to the reader's hand.
LEMMA ReadInv == ASSUME IInv, Read PROVE IInv'
<1> DEFINE own == written - Len(pty)
<1>1. PICK n \in 1 .. Len(pty) : /\ reader' = [at |-> "feed", data |-> SubSeq(pty, 1, n)]
                                 /\ pty' = SubSeq(pty, n + 1, Len(pty))
  BY DEF Read
<1>2. /\ Types /\ written \in Nat /\ Len(pty) \in Nat /\ Len(pty) <= written /\ n \in Nat
      /\ reader.at = "read" /\ fd = "pty" /\ written' = written
      /\ UNCHANGED <<screen, fd, stop, gui>>
  BY <1>1, TakenIsSeq DEF IInv, Types, Read, window
<1>3. own \in Nat /\ \A i \in 1 .. Len(pty) : pty[i] \in Nat /\ pty[i] = own + i
  BY Chunks
<1>4. /\ reader'.data \in Seq(Nat) /\ Len(reader'.data) = n
      /\ \A i \in 1 .. n : reader'.data[i] = own + i
  <2>1. \A i \in 1 .. n : pty[i] \in Nat
    BY <1>2, <1>3
  <2>2. /\ SubSeq(pty, 1, n) \in Seq(Nat) /\ Len(SubSeq(pty, 1, n)) = IF 1 <= n THEN n - 1 + 1 ELSE 0
        /\ \A i \in 1 .. n - 1 + 1 : SubSeq(pty, 1, n)[i] = pty[1 + i - 1]
    BY <1>2, <2>1, SubSeqProperties
  <2> QED BY <1>1, <1>2, <1>3, <2>2
<1>5. /\ pty' \in Seq(Nat) /\ Len(pty') = Len(pty) - n
      /\ \A i \in 1 .. Len(pty') : pty'[i] = own + n + i
  <2>1. \A i \in n + 1 .. Len(pty) : pty[i] \in Nat
    BY <1>2, <1>3
  <2>2. /\ pty' \in Seq(Nat)
        /\ Len(pty') = IF n + 1 <= Len(pty) THEN Len(pty) - (n + 1) + 1 ELSE 0
        /\ \A i \in 1 .. Len(pty) - (n + 1) + 1 : pty'[i] = pty[n + 1 + i - 1]
    BY <1>1, <1>2, <2>1, SubSeqProperties
  <2>3. Len(pty') = Len(pty) - n
    BY <1>2, <2>2
  <2>4. ASSUME NEW i \in 1 .. Len(pty') PROVE pty'[i] = own + n + i
    <3>1. pty'[i] = pty[n + i] /\ n + i \in 1 .. Len(pty)
      BY <1>2, <2>2, <2>3
    <3> QED BY <3>1, <1>2, <1>3
  <2> QED BY <2>2, <2>3, <2>4
<1>6. Types'
  BY <1>1, <1>2, <1>4, <1>5 DEF Types, Steps
<1>7. Taken = screen /\ Len(Taken) = own
  <2>1. Taken = screen
    BY <1>2, TakenIsSeq DEF IInv, HandIsEmpty
  <2>2. Len(Taken) \in {own, own + 1} /\ (Len(Taken) = own + 1 => fd # "pty")
    BY Chunks
  <2> QED BY <2>1, <2>2, <1>2
<1>8. /\ Len(Taken') = own + n
      /\ \A i \in 1 .. own + n : Taken'[i] = i
  <2>1. screen \in Seq(Nat) /\ Taken' = screen \o reader'.data
    BY <1>2 DEF Types, Taken
  <2>2. /\ Len(Taken') = own + n
        /\ \A i \in 1 .. own + n : Taken'[i] = IF i <= own THEN screen[i] ELSE reader'.data[i - own]
    <3>1. Len(screen) = own
      BY <1>7
    <3> HIDE DEF own
    <3> QED BY <2>1, <3>1, <1>4, ConcatProperties, ZenonT(30)
  <2>3. ASSUME NEW i \in 1 .. own + n PROVE Taken'[i] = i
    <3>1. CASE i <= own
      <4>1. \A k \in 1 .. own : Taken[k] = k
        BY Chunks
      <4>2. Taken[i] = i
        BY <4>1, <3>1, <1>3
      <4>3. Taken'[i] = screen[i]
        BY <2>2, <3>1
      <4> QED BY <4>2, <4>3, <1>7
    <3>2. CASE ~ (i <= own)
      <4>1. i - own \in 1 .. n /\ own + (i - own) = i
        BY <3>2, <1>2, <1>3
      <4> QED BY <3>2, <4>1, <2>2, <1>4
    <3> QED BY <3>1, <3>2
  <2> QED BY <2>2, <2>3
<1>9. written' - Len(pty') = own + n
  BY <1>2, <1>5
<1>10. TakesWhatWasWritten' /\ StrayIsLast'
  BY <1>2, <1>5, <1>8, <1>9 DEF TakesWhatWasWritten, StrayIsLast
<1> QED BY <1>1, <1>2, <1>6, <1>10 DEF IInv, HandIsEmpty, StopComesFirst, StartsOnce

\* A chunk of the other file: _stop was set before the descriptor was closed.
LEMMA ReadForeignInv == ASSUME IInv, ReadForeign PROVE IInv'
<1> DEFINE own == written - Len(pty)
<1>1. /\ Types /\ written \in Nat /\ Len(pty) \in Nat /\ Len(pty) <= written
      /\ reader.at = "read" /\ fd \in {"file", "pipe"} /\ stop
      /\ reader' = [at |-> "feed", data |-> <<Foreign>>]
      /\ UNCHANGED <<written, pty, screen, fd, stop, gui>>
  BY TakenIsSeq DEF IInv, Types, StopComesFirst, ReadForeign, terminal, window
<1>2. <<Foreign>> \in Seq(Nat) /\ Len(<<Foreign>>) = 1 /\ <<Foreign>>[1] = Foreign
  BY DEF Foreign
<1>3. Types'
  BY <1>1, <1>2 DEF Types, Steps
<1>4. Taken = screen /\ Len(Taken) = own /\ own \in Nat
  BY <1>1, TakenIsSeq, Chunks DEF IInv, HandIsEmpty
<1>5. /\ Len(Taken') = own + 1
      /\ \A i \in 1 .. own : Taken'[i] = i
      /\ Taken'[own + 1] = Foreign
  <2>1. screen \in Seq(Nat) /\ Taken' = screen \o <<Foreign>>
    BY <1>1 DEF Types, Taken
  <2>2. /\ Len(Taken') = own + 1
        /\ \A i \in 1 .. own + 1 :
              Taken'[i] = IF i <= own THEN screen[i] ELSE <<Foreign>>[i - own]
    BY <2>1, <1>2, <1>4, ConcatProperties
  <2>3. own + 1 \in 1 .. own + 1 /\ ~ (own + 1 <= own) /\ own + 1 - own = 1
    BY <1>4
  <2>4. Taken'[own + 1] = Foreign
    <3> HIDE DEF own
    <3> QED BY <1>2, <1>4, <2>2, <2>3
  <2>5. ASSUME NEW i \in 1 .. own PROVE Taken'[i] = i
    BY <1>4, <2>2, Chunks
  <2> QED BY <2>2, <2>4, <2>5
<1>6. TakesWhatWasWritten' /\ StrayIsLast'
  BY <1>1, <1>5 DEF IInv, TakesWhatWasWritten, StrayIsLast
<1> QED BY <1>1, <1>3, <1>6 DEF IInv, HandIsEmpty, StopComesFirst, StartsOnce

\* The hand is emptied onto the screen.
LEMMA FeedInv == ASSUME IInv, Feed PROVE IInv'
<1>1. /\ Types /\ reader.at = "feed" /\ screen' = Taken
      /\ reader' = [at |-> "top", data |-> <<>>]
      /\ UNCHANGED <<written, pty, fd, stop, gui>>
  BY DEF IInv, Feed, Taken, terminal, window
<1>2. Types'
  BY <1>1, TakenIsSeq, EmptySeq DEF Types, Steps
<1>3. Taken' = Taken
  <2>1. Taken' = Taken \o <<>>
    BY <1>1 DEF Taken
  <2> QED BY <2>1, <1>1, TakenIsSeq, ConcatEmptySeq
<1>4. TakesWhatWasWritten' /\ StrayIsLast'
  BY <1>1, <1>3 DEF IInv, TakesWhatWasWritten, StrayIsLast
<1> QED BY <1>1, <1>2, <1>4 DEF IInv, HandIsEmpty, StopComesFirst, StartsOnce

\* The reader's steps that move no chunk.
LEMMA GotoInv ==
    ASSUME IInv, NEW step \in Steps \ {"feed"}, Goto(step),
           reader.at \notin {"feed", "none", "ended"},
           reader.at = "top" /\ stop => step = "ended"
    PROVE  IInv'
<1>1. reader \in [at : Steps, data : Seq(Nat)] /\ reader' = [reader EXCEPT !.at = step]
  BY DEF IInv, Types, Goto
<1>2. reader' \in [at : Steps, data : {reader.data}] /\ reader'.at = step /\ reader'.data = <<>>
  BY <1>1 DEF IInv, HandIsEmpty
<1>3. UNCHANGED <<written, pty, screen, fd, stop, gui>>
  BY DEF Goto, terminal, window
<1> QED
  BY <1>2, <1>3, NoChunkMoves DEF IInv, HandIsEmpty, StopComesFirst, StartsOnce

\* A chunk that is not told apart, on its way past the screen.
LEMMA ReadMoreInv == ASSUME IInv, ReadMore PROVE IInv'
<1>1. /\ reader \in [at : Steps, data : Seq(Nat)] /\ reader' = [reader EXCEPT !.at = "feed"]
      /\ reader.at = "read" /\ UNCHANGED <<written, pty, screen, fd, stop, gui>>
  BY DEF IInv, Types, ReadMore, window
<1>2. reader' \in [at : Steps, data : {reader.data}] /\ reader'.at = "feed"
  BY <1>1 DEF Steps
<1> QED
  BY <1>1, <1>2, NoChunkMoves DEF IInv, HandIsEmpty, StopComesFirst, StartsOnce

\* The emulator ends the thread.
LEMMA ChokeInv == ASSUME IInv, FeedFails PROVE IInv'
<1>1. /\ reader \in [at : Steps, data : Seq(Nat)] /\ reader' = [reader EXCEPT !.at = "ended"]
      /\ reader.at = "feed" /\ UNCHANGED <<written, pty, screen, fd, stop, gui>>
  BY DEF IInv, Types, FeedFails, Goto, terminal, window
<1>2. reader' \in [at : Steps, data : {reader.data}] /\ reader'.at = "ended"
  BY <1>1 DEF Steps
<1> QED
  BY <1>1, <1>2, NoChunkMoves DEF IInv, HandIsEmpty, StopComesFirst, StartsOnce

LEMMA ReaderInv == ASSUME IInv, ReaderStep PROVE IInv'
<1>1. CASE Begin
  BY <1>1, GotoInv DEF Begin, Steps
<1>2. CASE Top
  BY <1>2, GotoInv DEF Top, Steps
<1>3. CASE SelectReady
  BY <1>3, GotoInv DEF SelectReady, Steps
<1>4. CASE SelectFails
  BY <1>4, GotoInv DEF SelectFails, Steps
<1>5. CASE SelectTimesOut
  BY <1>5, GotoInv DEF SelectTimesOut, Steps
<1>6. CASE CheckAlive
  BY <1>6, GotoInv DEF CheckAlive, Steps
<1>7. CASE ReadFails
  BY <1>7, GotoInv DEF ReadFails, Steps
<1> QED
  BY <1>1, <1>2, <1>3, <1>4, <1>5, <1>6, <1>7, ReadInv, ReadMoreInv, ReadForeignInv,
     FeedInv DEF ReaderStep

\* The window's thread, the processes and the other thread.
\* The step with which the window starts the reader.
LEMMA StartInv == ASSUME IInv, Start PROVE IInv'
<1>1. /\ gui = "new" /\ gui' = "poll" /\ reader.at = "none" /\ reader.data = <<>> /\ ~ stop
      /\ reader \in [at : Steps, data : Seq(Nat)] /\ reader' = [reader EXCEPT !.at = "begin"]
      /\ fd' = "pty" /\ UNCHANGED <<written, pty, screen, stop>>
  BY DEF IInv, Types, HandIsEmpty, StopComesFirst, StartsOnce, Start
<1>2. reader' \in [at : Steps, data : {reader.data}] /\ reader'.at = "begin" /\ reader'.data = <<>>
  BY <1>1 DEF Steps
<1>3. HandIsEmpty' /\ StopComesFirst' /\ StartsOnce'
  BY <1>1, <1>2 DEF HandIsEmpty, StopComesFirst, StartsOnce
<1> QED BY <1>1, <1>2, <1>3, NoChunkMoves

\* A step that leaves the stream and the reader alone.
LEMMA StreamRests ==
    ASSUME IInv, UNCHANGED <<written, pty, screen, reader>>, StopComesFirst', StartsOnce',
           stop => stop', fd' = "pty" => fd = "pty" \/ ~ stop
    PROVE  IInv'
<1>1. reader' \in [at : Steps, data : {reader.data}]
  BY DEF IInv, Types
<1> QED BY <1>1, NoChunkMoves DEF IInv, HandIsEmpty

LEMMA WindowInv == ASSUME IInv, GuiStep \/ StartFails \/ Type \/ Close PROVE IInv'
<1>1. UNCHANGED <<written, pty, screen, reader>> /\ (stop => stop') /\ gui' # "new"
  BY DEF GuiStep, Poll, PollCursor, PollAlive, Written, WriteFails, CloseMaster, Join,
         StartFails, Type, Close, terminal
<1>2. fd' = "pty" => fd = "pty" \/ ~ stop
  BY DEF IInv, StopComesFirst, GuiStep, Poll, PollCursor, PollAlive, Written, WriteFails,
         CloseMaster, Join, StartFails, Type, Close
<1>3. StopComesFirst' /\ StartsOnce'
  BY <1>1 DEF IInv, StopComesFirst, StartsOnce, GuiStep, Poll, PollCursor, PollAlive, Written,
              WriteFails, CloseMaster, Join, StartFails, Type, Close
<1> QED BY <1>1, <1>2, <1>3, StreamRests

\* The processes and the other thread.
LEMMA OthersInv ==
    ASSUME IInv,
           \/ Writes \/ ReadsKey \/ LeavesJob \/ OpenOther \/ OtherReads
           \/ \E p \in {"shell", "job"} : Exits(p)
    PROVE  IInv'
<1>1. ASSUME Writes \/ ReadsKey, written' = written + 1 PROVE IInv'
  BY <1>1, OutputInv DEF Writes, ReadsKey, Output, window, IInv, Types
<1>2. ASSUME Writes \/ ReadsKey, UNCHANGED <<written, pty>> PROVE IInv'
  BY <1>2, StreamRests DEF IInv, StopComesFirst, StartsOnce, Writes, ReadsKey, window
<1>3. CASE LeavesJob \/ \E p \in {"shell", "job"} : Exits(p)
  BY <1>3, StreamRests DEF IInv, StopComesFirst, StartsOnce, LeavesJob, Exits, window
<1>4. CASE OpenOther \/ OtherReads
  BY <1>4, StreamRests DEF IInv, StopComesFirst, StartsOnce, OpenOther, OtherReads, terminal, window
<1>5. Writes \/ ReadsKey => written' = written + 1 \/ UNCHANGED <<written, pty>>
  BY DEF Writes, ReadsKey, Output
<1> QED BY <1>1, <1>2, <1>3, <1>4, <1>5

\* Whatever the reader takes is what was written, and at most one chunk of
\* another thread's file, its last.
THEOREM TakesOwn == PtySpec => []TakesWhatWasWritten
<1>1. IInv /\ [PtyNext]_ptyVars => IInv'
  <2> SUFFICES ASSUME IInv, [PtyNext]_ptyVars PROVE IInv'
    OBVIOUS
  <2>1. CASE UNCHANGED ptyVars
    BY <2>1, StreamRests DEF IInv, StopComesFirst, StartsOnce, ptyVars, terminal, window
  <2> QED BY <2>1, ReaderInv, ChokeInv, StartInv, WindowInv, OthersInv DEF PtyNext
<1>2. IInv => TakesWhatWasWritten
  BY DEF IInv
<1> QED BY InitInv, <1>1, <1>2, PTL DEF PtySpec

-----------------------------------------------------------------------------
(***************************************************************************)
(* TuiEditor                                                               *)
(***************************************************************************)
\* The sheet, the file and the marks as they were.
Untouched == UNCHANGED <<cells, formats, dirty, file, untold>>

\* What a command may do to them: nothing, mark the document as changed, save
\* it, or, when they fail half way, leave a change unmarked.
Marks == \/ Untouched
         \/ dirty' = TRUE
         \/ untold' = TRUE
         \/ file' = [cells |-> cells, formats |-> formats]
            /\ cells' = cells /\ formats' = formats

LEMMA MarksEdit ==
    ASSUME NEW writes, Edit(writes) \/ EditCutShort(writes)
    PROVE  Marks
BY DEF Edit, EditCutShort, Puts, Marks, Untouched

\* Every step of the editor does one of these.
LEMMA StepMarks ==
    ASSUME [Next]_vars
    PROVE  Marks
<1> USE DEF Marks, Untouched, doc, disk, ui, copies, tape
<1>1. ASSUME NEW r \in Rows, Move(r) \/ Paste(r) PROVE Marks
  BY <1>1 DEF Move, Paste, Edit, Puts
<1>2. ASSUME NEW c \in Typed, CommitInsert(c) PROVE Marks
  BY <1>2 DEF CommitInsert, Edit, Puts
<1>3. CASE ClearCell
  BY <1>3 DEF ClearCell
<1>4. ASSUME NEW from \in Rows, NEW to \in from .. LastRow,
             \/ Copy(from, to) \/ FillDown(from, to) \/ FillSeries(from, to)
             \/ Format(from .. to)
             \/ \E descending \in BOOLEAN : Sort(from, to, descending)
      PROVE  Marks
  <2>1. CASE Copy(from, to)
    BY <2>1 DEF Copy
  <2>2. CASE FillDown(from, to)
    BY <2>2 DEF FillDown, Edit, Puts
  <2>3. CASE FillSeries(from, to)
    <3>1. PICK series : Edit(series) \/ EditCutShort(series)
      BY <2>3, Zenon DEF FillSeries
    <3> QED BY <2>3, <3>1, MarksEdit
  <2>4. CASE Format(from .. to)
    BY <2>4 DEF Format
  <2>5. CASE \E descending \in BOOLEAN : Sort(from, to, descending)
    BY <2>5, Zenon DEF Sort, Edit, Puts
  <2> QED BY <1>4, <2>1, <2>2, <2>3, <2>4, <2>5
<1>5. CASE \E i \in 1 .. Capacity : PasteHistory(i)
  BY <1>5 DEF PasteHistory, Edit, Puts
<1>6. CASE \E t, u \in Texts : t # u /\ Replace(Text(t), Text(u))
  BY <1>6 DEF Replace, Edit, Puts
<1>7. CASE \E t \in Texts : StoreNumber(t)
  BY <1>7 DEF StoreNumber, EditUnrecorded
<1>8. CASE \E r \in Rows, c \in Typed : Python(r, c)
  BY <1>8 DEF Python
<1>9. CASE \/ \E relative \in BOOLEAN : StartRecording(relative)
           \/ StopRecording \/ SaveMacro \/ Quit
  BY <1>9 DEF StartRecording, StopRecording, SaveMacro, Quit
<1>10. CASE Replay \/ RunMacro
  BY <1>10 DEF Replay, RunMacro, EditUnrecorded
<1>11. CASE \E quit \in BOOLEAN : Save(quit)
  BY <1>11 DEF Save, Saved
<1>12. CASE UNCHANGED vars
  BY <1>12 DEF vars
<1> QED
  BY <1>1, <1>2, <1>3, <1>4, <1>5, <1>6, <1>7, <1>8, <1>9, <1>10, <1>11, <1>12 DEF Next

\* Whatever the commands and their order, a document without the mark is what
\* its file holds, unless a command failed half way after changing a cell.
THEOREM SavedIsSaved == Spec => []CleanMeansSaved
<1>1. Init => CleanMeansSaved
  BY DEF Init, CleanMeansSaved
<1>2. CleanMeansSaved /\ [Next]_vars => CleanMeansSaved'
  BY StepMarks DEF CleanMeansSaved, Marks, Untouched
<1> QED BY <1>1, <1>2, PTL DEF Spec

-----------------------------------------------------------------------------
(***************************************************************************)
(* The recorder.                                                           *)
(***************************************************************************)
\* Induction, for what is true up to each number of writes.
LEMMA FromZero ==
    ASSUME NEW T, 0 \in T, \A n \in Nat : n \in T => n + 1 \in T
    PROVE  \A n \in Nat : n \in T
<1> DEFINE less == OpToRel(<, Nat)
           missing == Nat \ T
<1> SUFFICES ASSUME missing # {} PROVE FALSE
  OBVIOUS
<1>1. PICK n \in missing : \A m \in missing : ~ (<<m, n>> \in less)
  <2>1. IsWellFoundedOn(less, Nat)
    BY NatLessThanWellFounded
  <2>2. missing \subseteq Nat
    OBVIOUS
  <2> HIDE DEF less, missing
  <2> QED BY <2>1, <2>2, WFMin, Zenon
<1>2. n - 1 \in missing
  <2>1. n \in Nat /\ n \notin T /\ n # 0
    BY <1>1
  <2>2. n - 1 \in Nat /\ (n - 1) + 1 = n
    BY <2>1
  <2>3. n - 1 \notin T
    BY <2>1, <2>2
  <2> QED BY <2>2, <2>3
<1>3. <<n - 1, n>> \in less
  BY <1>1, <1>2 DEF OpToRel
<1> QED BY <1>1, <1>2, <1>3

\* A set of some of the first numbers has a greatest.
LEMMA HasGreatest ==
    ASSUME NEW n \in Nat, NEW S \in SUBSET (1 .. n), S # {}
    PROVE  Max(S) \in S /\ \A i \in S : i <= Max(S)
<1> DEFINE T == {m \in Nat : \A R \in SUBSET (1 .. m) : R # {} => \E x \in R : \A y \in R : x >= y}
<1>1. 0 \in T
  <2>1. 1 .. 0 = {}
    OBVIOUS
  <2> QED BY <2>1
<1>2. ASSUME NEW m \in Nat, m \in T
      PROVE  m + 1 \in T
  <2> SUFFICES ASSUME NEW R \in SUBSET (1 .. m + 1), R # {}
               PROVE  \E x \in R : \A y \in R : x >= y
    OBVIOUS
  <2>1. CASE m + 1 \in R
    BY <2>1
  <2>2. CASE m + 1 \notin R
    <3>1. R \in SUBSET (1 .. m)
      BY <2>2
    <3> QED BY <1>2, <3>1
  <2> QED BY <2>1, <2>2
<1> HIDE DEF T
<1>3. n \in T
  BY <1>1, <1>2, FromZero
<1>4. \E x \in S : \A y \in S : x >= y
  BY <1>3 DEF T
<1> QED BY <1>4 DEF Max

\* Writes in a row: the last to a cell counts.
LEMMA LastCounts ==
    ASSUME NEW column, NEW ws, NEW n \in Nat, DOMAIN ws = 1 .. n, NEW r \in Rows
    PROVE  \/ /\ \A i \in 1 .. n : ws[i].row # r
              /\ Applied(column, ws)[r] = column[r]
           \/ \E k \in 1 .. n : /\ ws[k].row = r
                                /\ \A i \in k + 1 .. n : ws[i].row # r
                                /\ Applied(column, ws)[r] = ws[k].raw
<1> DEFINE here == {i \in DOMAIN ws : ws[i].row = r}
<1>1. Applied(column, ws)[r] = IF here = {} THEN column[r] ELSE ws[Max(here)].raw
  BY DEF Applied
<1>2. CASE here = {}
  BY <1>1, <1>2
<1>3. CASE here # {}
  <2>1. Max(here) \in here /\ \A i \in here : i <= Max(here)
    BY <1>3, HasGreatest
  <2>2. Max(here) \in 1 .. n /\ ws[Max(here)].row = r
    BY <2>1
  <2>3. ASSUME NEW i \in Max(here) + 1 .. n PROVE ws[i].row # r
    BY <2>1, <2>2
  <2> QED BY <1>1, <1>3, <2>2, <2>3
<1> QED BY <1>2, <1>3

LEMMA LastIs ==
    ASSUME NEW column, NEW ws, NEW n \in Nat, DOMAIN ws = 1 .. n, NEW r \in Rows,
           NEW k \in 1 .. n, ws[k].row = r, \A i \in k + 1 .. n : ws[i].row # r
    PROVE  Applied(column, ws)[r] = ws[k].raw
<1>1. PICK m \in 1 .. n : /\ ws[m].row = r
                          /\ \A i \in m + 1 .. n : ws[i].row # r
                          /\ Applied(column, ws)[r] = ws[m].raw
  BY LastCounts
<1>2. m = k
  BY <1>1
<1> QED BY <1>1, <1>2

\* One write more.
Stored(column, r, raw) == [q \in Rows |-> IF q = r THEN raw ELSE column[q]]

\* ws goes on from vs with a write of raw to r, or has it in the place of the
\* last of vs, which was to r.
GoesOn(vs, n, ws, m, r, raw) ==
    /\ n \in Nat /\ DOMAIN vs = 1 .. n
    /\ m \in Nat /\ DOMAIN ws = 1 .. m
    /\ m = n + 1 \/ (m = n /\ n > 0 /\ vs[n].row = r)
    /\ ws[m].row = r /\ ws[m].raw = raw
    /\ \A i \in 1 .. m - 1 : ws[i].row = vs[i].row /\ ws[i].raw = vs[i].raw

LEMMA OneMore ==
    ASSUME NEW column, NEW vs, NEW n, NEW ws, NEW m, NEW r, NEW raw,
           GoesOn(vs, n, ws, m, r, raw)
    PROVE  Applied(column, ws) = Stored(Applied(column, vs), r, raw)
<1> USE DEF GoesOn
<1> SUFFICES ASSUME NEW q \in Rows
             PROVE  Applied(column, ws)[q] = IF q = r THEN raw ELSE Applied(column, vs)[q]
  BY DEF Applied, Stored
<1>1. CASE q = r
  BY <1>1, LastIs
<1>2. CASE q # r
  <2>1. CASE \A i \in 1 .. m : ws[i].row # q
    <3>1. \A i \in 1 .. n : vs[i].row # q
      BY <1>2, <2>1
    <3> QED BY <1>2, <2>1, <3>1, LastCounts
  <2>2. CASE ~ \A i \in 1 .. m : ws[i].row # q
    <3>1. PICK k \in 1 .. m : /\ ws[k].row = q
                              /\ \A i \in k + 1 .. m : ws[i].row # q
                              /\ Applied(column, ws)[q] = ws[k].raw
      BY <2>2, LastCounts
    <3>2. k < m
      BY <1>2, <3>1
    <3>3. k \in 1 .. n /\ vs[k].row = q /\ vs[k].raw = ws[k].raw
      BY <3>1, <3>2
    <3>4. \A i \in k + 1 .. n : vs[i].row # q
      BY <1>2, <3>1, <3>2
    <3>5. Applied(column, vs)[q] = vs[k].raw
      BY <3>3, <3>4, LastIs
    <3> QED BY <1>2, <3>1, <3>3, <3>5
  <2> QED BY <2>1, <2>2
<1> QED BY <1>1, <1>2

-----------------------------------------------------------------------------
\* Lists of anything, and what the recorder holds.
IsList(s) == Len(s) \in Nat /\ s = [i \in 1 .. Len(s) |-> s[i]]

IsAction(a) == /\ a = [kind |-> a.kind, row |-> a.row, raw |-> a.raw]
               /\ a.kind \in {"set", "clear"}
               /\ a.kind = "clear" => a.raw = Blank
               /\ a.row \in Int

IsRecorder(rec) ==
    /\ rec = [recording |-> rec.recording, relative |-> rec.relative,
              anchor |-> rec.anchor, actions |-> rec.actions]
    /\ rec.recording \in BOOLEAN
    /\ IsList(rec.actions)
    /\ \A i \in 1 .. Len(rec.actions) : IsAction(rec.actions[i])

\* The column that the recording makes of another where it was made.
Remade(column, rec) == Applied(column, ReplayWrites(rec, 0))

LEMMA SeqIsList ==
    ASSUME NEW S, NEW s \in Seq(S)
    PROVE  IsList(s)
BY DEF IsList

LEMMA Listed ==
    ASSUME NEW n \in Nat, NEW ws, ws = [i \in 1 .. n |-> ws[i]]
    PROVE  IsList(ws) /\ Len(ws) = n
<1> DEFINE S == {ws[i] : i \in 1 .. n}
<1>1. ws \in [1 .. n -> S]
  OBVIOUS
<1> HIDE DEF S
<1>2. ws \in Seq(S) /\ Len(ws) = n
  BY <1>1, SeqDef
<1> QED BY <1>2, SeqIsList

LEMMA AppendedTo ==
    ASSUME NEW s, NEW v, IsList(s)
    PROVE  /\ IsList(Append(s, v))
           /\ Len(Append(s, v)) = Len(s) + 1
           /\ \A i \in 1 .. Len(s) : Append(s, v)[i] = s[i]
           /\ Append(s, v)[Len(s) + 1] = v
<1> DEFINE S == {s[i] : i \in 1 .. Len(s)} \cup {v}
<1>1. s \in Seq(S)
  <2>1. s \in [1 .. Len(s) -> S] /\ Len(s) \in Nat
    BY DEF IsList
  <2> HIDE DEF S
  <2> QED BY <2>1, SeqDef
<1>2. v \in S
  OBVIOUS
<1> HIDE DEF S
<1>3. Append(s, v) \in Seq(S)
  BY <1>1, <1>2, AppendProperties
<1>4. IsList(Append(s, v))
  BY <1>3, SeqIsList
<1> QED BY <1>1, <1>2, <1>4, AppendProperties

\* What a replay in place writes: what was recorded.
LEMMA WritesInPlace ==
    ASSUME NEW rec, IsRecorder(rec)
    PROVE  LET ws == ReplayWrites(rec, 0)
           IN  /\ DOMAIN ws = 1 .. Len(rec.actions)
               /\ \A i \in 1 .. Len(rec.actions) :
                     ws[i].row = rec.actions[i].row /\ ws[i].raw = rec.actions[i].raw
<1> DEFINE ws == ReplayWrites(rec, 0)
<1>1. PICK s : s = rec.actions
  OBVIOUS
<1>2. PICK n : n = Len(s)
  OBVIOUS
<1>3. DOMAIN s = 1 .. n /\ \A i \in 1 .. n : IsAction(s[i])
  BY <1>1, <1>2 DEF IsRecorder, IsList
<1>4. ws = [i \in 1 .. n |->
               Write(s[i].row + 0, IF s[i].kind = "set" THEN Shifted(s[i].raw, 0) ELSE Blank)]
  BY <1>1, <1>3 DEF ReplayWrites
<1>5. ASSUME NEW i \in 1 .. n
      PROVE  ws[i].row = s[i].row /\ ws[i].raw = s[i].raw
  <2>1. Shifted(s[i].raw, 0) = s[i].raw
    BY DEF Shifted
  <2>2. s[i].row + 0 = s[i].row
    BY <1>3 DEF IsAction
  <2>3. ws[i] = [row |-> s[i].row, raw |-> IF s[i].kind = "set" THEN s[i].raw ELSE Blank]
    BY <1>4, <2>1, <2>2 DEF Write
  <2>4. s[i].kind = "set" \/ s[i].raw = Blank
    BY <1>3 DEF IsAction
  <2> QED BY <2>3, <2>4
<1>6. DOMAIN ws = 1 .. n
  BY <1>4
<1> QED BY <1>1, <1>2, <1>5, <1>6

\* An action more.
Longer(rec, anchor, a) == [recording |-> rec.recording, relative |-> rec.relative,
                           anchor |-> anchor, actions |-> Append(rec.actions, a)]

LEMMA ActionAdded ==
    ASSUME NEW rec, IsRecorder(rec), NEW a, IsAction(a), NEW anchor
    PROVE  /\ IsRecorder(Longer(rec, anchor, a))
           /\ Longer(rec, anchor, a).recording = rec.recording
           /\ \A column : Remade(column, Longer(rec, anchor, a)) =
                             Stored(Remade(column, rec), a.row, a.raw)
<1> DEFINE new == Longer(rec, anchor, a)
<1>1. new = [recording |-> rec.recording, relative |-> rec.relative,
             anchor |-> anchor, actions |-> Append(rec.actions, a)]
  BY DEF Longer
<1> HIDE DEF new
<1>2. IsList(rec.actions) /\ \A i \in 1 .. Len(rec.actions) : IsAction(rec.actions[i])
  BY DEF IsRecorder
<1>3. PICK s : s = rec.actions
  OBVIOUS
<1>4. PICK n : n = Len(s)
  OBVIOUS
<1>5. PICK t : t = Append(s, a)
  OBVIOUS
<1>6. /\ IsList(t) /\ Len(t) = n + 1 /\ n \in Nat
      /\ \A i \in 1 .. n : t[i] = s[i]
      /\ t[n + 1] = a
  BY <1>2, <1>3, <1>4, <1>5, AppendedTo DEF IsList
<1>7. IsRecorder(new) /\ new.actions = t
  <2>1. \A i \in 1 .. n + 1 : IsAction(t[i])
    <3> SUFFICES ASSUME NEW i \in 1 .. n + 1 PROVE IsAction(t[i])
      OBVIOUS
    <3>1. CASE i = n + 1
      BY <1>6, <3>1
    <3>2. CASE i # n + 1
      BY <1>2, <1>3, <1>4, <1>6, <3>2
    <3> QED BY <3>1, <3>2
  <2>2. rec.recording \in BOOLEAN
    BY DEF IsRecorder
  <2> HIDE DEF IsAction
  <2> QED BY <1>1, <1>3, <1>5, <1>6, <2>1, <2>2 DEF IsRecorder
<1>8. ASSUME NEW column
      PROVE  Remade(column, new) = Stored(Remade(column, rec), a.row, a.raw)
  <2>1. PICK vs : vs = ReplayWrites(rec, 0)
    OBVIOUS
  <2>2. PICK ws : ws = ReplayWrites(new, 0)
    OBVIOUS
  <2>3. /\ DOMAIN vs = 1 .. n
        /\ \A i \in 1 .. n : vs[i].row = s[i].row /\ vs[i].raw = s[i].raw
    BY <1>3, <1>4, <2>1, WritesInPlace
  <2>4. /\ DOMAIN ws = 1 .. n + 1
        /\ \A i \in 1 .. n + 1 : ws[i].row = t[i].row /\ ws[i].raw = t[i].raw
    <3>1. Len(new.actions) = n + 1
      BY <1>6, <1>7
    <3> QED BY <1>7, <2>2, <3>1, WritesInPlace, Zenon
  <2>5. /\ ws[n + 1].row = a.row /\ ws[n + 1].raw = a.raw
        /\ \A i \in 1 .. n : ws[i].row = vs[i].row /\ ws[i].raw = vs[i].raw
    <3>1. n + 1 \in 1 .. n + 1 /\ 1 .. n \subseteq 1 .. n + 1
      BY <1>6
    <3> QED BY <1>6, <2>3, <2>4, <3>1, Zenon
  <2>6. (n + 1) - 1 = n /\ n + 1 \in Nat
    BY <1>6
  <2>7. Applied(column, ws) = Stored(Applied(column, vs), a.row, a.raw)
    <3>1. GoesOn(vs, n, ws, n + 1, a.row, a.raw)
      BY <1>6, <2>3, <2>4, <2>5, <2>6 DEF GoesOn
    <3> QED BY <3>1, OneMore
  <2> QED BY <2>1, <2>2, <2>7 DEF Remade
<1>9. new.recording = rec.recording
  BY <1>1
<1> QED BY <1>7, <1>8, <1>9 DEF new

\* The last action takes another text.
LEMMA ActionReplaced ==
    ASSUME NEW rec, IsRecorder(rec), rec.actions # <<>>, NEW raw, NEW new,
           rec.actions[Len(rec.actions)].kind = "set",
           new = [rec EXCEPT !.actions[Len(rec.actions)].raw = raw]
    PROVE  /\ IsRecorder(new)
           /\ new.recording = rec.recording
           /\ \A column : Remade(column, new) =
                  Stored(Remade(column, rec), rec.actions[Len(rec.actions)].row, raw)
<1>1. PICK s : s = rec.actions
  OBVIOUS
<1>2. PICK n : n = Len(s)
  OBVIOUS
<1>3. /\ n \in Nat /\ s = [i \in 1 .. n |-> s[i]]
      /\ \A i \in 1 .. n : IsAction(s[i])
  BY <1>1, <1>2 DEF IsRecorder, IsList
<1>4. n > 0
  <2>1. CASE n = 0
    <3>1. s \in Seq({})
      <4>1. s \in [1 .. n -> {}]
        BY <1>3, <2>1
      <4> QED BY <1>3, <4>1, SeqDef
    <3>2. s = <<>>
      BY <1>2, <2>1, <3>1, EmptySeq
    <3> QED BY <1>1, <3>2
  <2> QED BY <1>3, <2>1
<1>5. PICK t : t = [s EXCEPT ![n].raw = raw]
  OBVIOUS
<1>6. new = [recording |-> rec.recording, relative |-> rec.relative,
             anchor |-> rec.anchor, actions |-> t]
  BY <1>1, <1>2, <1>5 DEF IsRecorder
<1>7. /\ t = [i \in 1 .. n |-> IF i = n THEN [s[n] EXCEPT !.raw = raw] ELSE s[i]]
  BY <1>3, <1>5
<1>8. t[n] = [kind |-> "set", row |-> s[n].row, raw |-> raw] /\ s[n].row \in Int
  <2>1. PICK a : a = s[n]
    OBVIOUS
  <2>2. IsAction(a)
    BY <1>3, <1>4, <2>1
  <2>3. a = [kind |-> a.kind, row |-> a.row, raw |-> a.raw] /\ a.row \in Int
    BY <2>2 DEF IsAction
  <2>4. a.kind = "set"
    BY <1>1, <1>2, <2>1
  <2>5. [a EXCEPT !.raw = raw] = [kind |-> "set", row |-> a.row, raw |-> raw]
    BY <2>3, <2>4
  <2>6. t[n] = [a EXCEPT !.raw = raw]
    <3>1. n \in 1 .. n
      BY <1>3, <1>4
    <3> QED BY <1>7, <2>1, <3>1, Zenon
  <2> QED BY <2>1, <2>3, <2>5, <2>6
<1>13. \A i \in 1 .. n : i # n => t[i] = s[i]
  BY <1>7
<1>9. Len(t) = n /\ IsList(t)
  <2>1. t = [i \in 1 .. n |-> t[i]]
    BY <1>7
  <2> QED BY <1>3, <2>1, Listed
<1>10. \A i \in 1 .. n : IsAction(t[i])
  <2>1. IsAction(t[n])
    BY <1>8 DEF IsAction
  <2>2. ASSUME NEW i \in 1 .. n, i # n PROVE IsAction(t[i])
    <3>1. t[i] = s[i]
      BY <1>13, <2>2
    <3> QED BY <1>3, <3>1
  <2> QED BY <2>1, <2>2
<1>11. IsRecorder(new) /\ new.actions = t
  <2>1. rec.recording \in BOOLEAN
    BY DEF IsRecorder
  <2>2. /\ new.actions = t /\ new.recording = rec.recording
        /\ new.relative = rec.relative /\ new.anchor = rec.anchor
    BY <1>6
  <2>3. new = [recording |-> new.recording, relative |-> new.relative,
               anchor |-> new.anchor, actions |-> new.actions]
    BY <1>6, <2>2, Zenon
  <2> QED BY <1>9, <1>10, <2>1, <2>2, <2>3 DEF IsRecorder
<1>12. ASSUME NEW column
       PROVE  Remade(column, new) = Stored(Remade(column, rec), s[n].row, raw)
  <2>1. PICK vs : vs = ReplayWrites(rec, 0)
    OBVIOUS
  <2>2. PICK ws : ws = ReplayWrites(new, 0)
    OBVIOUS
  <2>3. /\ DOMAIN vs = 1 .. n
        /\ \A i \in 1 .. n : vs[i].row = s[i].row /\ vs[i].raw = s[i].raw
    BY <1>1, <1>2, <2>1, WritesInPlace
  <2>4. /\ DOMAIN ws = 1 .. n
        /\ \A i \in 1 .. n : ws[i].row = t[i].row /\ ws[i].raw = t[i].raw
    BY <1>9, <1>11, <2>2, WritesInPlace
  <2>5. PICK r : r = s[n].row
    OBVIOUS
  <2>6. /\ ws[n].row = r /\ ws[n].raw = raw /\ vs[n].row = r
        /\ \A i \in 1 .. n - 1 : ws[i].row = vs[i].row /\ ws[i].raw = vs[i].raw
    <3>1. n \in 1 .. n /\ t[n].row = r /\ t[n].raw = raw
      BY <1>3, <1>4, <1>8, <2>5
    <3>2. \A i \in 1 .. n - 1 : i \in 1 .. n /\ t[i] = s[i]
      BY <1>3, <1>13
    <3> QED BY <2>3, <2>4, <2>5, <3>1, <3>2, ZenonT(30)
  <2>7. Applied(column, ws) = Stored(Applied(column, vs), r, raw)
    <3>1. GoesOn(vs, n, ws, n, r, raw)
      BY <1>3, <1>4, <2>3, <2>4, <2>6 DEF GoesOn
    <3> QED BY <3>1, OneMore
  <2> QED BY <2>1, <2>2, <2>5, <2>7 DEF Remade
<1> QED BY <1>1, <1>2, <1>6, <1>11, <1>12

\* Whether or not it collapses, a recorded edit is one write more.
LEMMA RecordedSet ==
    ASSUME NEW rec, IsRecorder(rec), rec.recording, NEW r \in Int, NEW raw
    PROVE  LET new == RecordSet(rec, r, raw)
           IN  /\ IsRecorder(new)
               /\ new.recording
               /\ \A column : Remade(column, new) = Stored(Remade(column, rec), r, raw)
<1> DEFINE n == Len(rec.actions)
<1>1. CASE rec.actions # <<>> /\ Last(rec.actions).kind = "set" /\ Last(rec.actions).row = r
  <2>1. rec.actions[n].kind = "set" /\ rec.actions[n].row = r
    BY <1>1 DEF Last
  <2>2. RecordSet(rec, r, raw) = [rec EXCEPT !.actions[n].raw = raw]
    BY <1>1 DEF RecordSet
  <2> QED BY <1>1, <2>1, <2>2, ActionReplaced
<1>2. CASE ~ (rec.actions # <<>> /\ Last(rec.actions).kind = "set" /\ Last(rec.actions).row = r)
  <2>1. PICK a : a = Set(r, raw)
    OBVIOUS
  <2>2. PICK anchor : anchor = IF rec.relative /\ rec.anchor = NoAnchor THEN r ELSE rec.anchor
    OBVIOUS
  <2>3. RecordSet(rec, r, raw) = Longer(rec, anchor, a)
    BY <1>2, <2>1, <2>2 DEF RecordSet, Noted, IsRecorder, Longer
  <2>4. IsAction(a) /\ a.row = r /\ a.raw = raw
    BY <2>1 DEF IsAction, Set
  <2>5. PICK new : new = RecordSet(rec, r, raw)
    OBVIOUS
  <2>6. /\ IsRecorder(new) /\ new.recording = rec.recording
        /\ \A column : Remade(column, new) = Stored(Remade(column, rec), a.row, a.raw)
    <3>1. IsRecorder(Longer(rec, anchor, a))
      BY <2>4, ActionAdded
    <3>2. Longer(rec, anchor, a).recording = rec.recording
      BY <2>4, ActionAdded
    <3>3. \A column : Remade(column, Longer(rec, anchor, a)) =
                      Stored(Remade(column, rec), a.row, a.raw)
      BY <2>4, ActionAdded, Zenon
    <3> QED BY <2>3, <2>5, <3>1, <3>2, <3>3
  <2> QED BY <2>4, <2>5, <2>6
<1> QED BY <1>1, <1>2

LEMMA RecordedClear ==
    ASSUME NEW rec, IsRecorder(rec), rec.recording, NEW r \in Int
    PROVE  LET new == RecordClear(rec, r)
           IN  /\ IsRecorder(new)
               /\ new.recording
               /\ \A column : Remade(column, new) = Stored(Remade(column, rec), r, Blank)
<1>1. PICK a : a = Clear(r)
  OBVIOUS
<1>2. PICK anchor : anchor = IF rec.relative /\ rec.anchor = NoAnchor THEN r ELSE rec.anchor
  OBVIOUS
<1>3. RecordClear(rec, r) = Longer(rec, anchor, a)
  BY <1>1, <1>2 DEF RecordClear, Noted, IsRecorder, Longer
<1>4. IsAction(a) /\ a.row = r /\ a.raw = Blank
  BY <1>1 DEF IsAction, Clear
<1>5. PICK new : new = RecordClear(rec, r)
  OBVIOUS
<1>6. /\ IsRecorder(new) /\ new.recording = rec.recording
      /\ \A column : Remade(column, new) = Stored(Remade(column, rec), a.row, a.raw)
  <2>1. IsRecorder(Longer(rec, anchor, a))
    BY <1>4, ActionAdded
  <2>2. Longer(rec, anchor, a).recording = rec.recording
    BY <1>4, ActionAdded
  <2>3. \A column : Remade(column, Longer(rec, anchor, a)) =
                    Stored(Remade(column, rec), a.row, a.raw)
    BY <1>4, ActionAdded, Zenon
  <2> QED BY <1>3, <1>5, <2>1, <2>2, <2>3
<1> QED BY <1>4, <1>5, <1>6

\* Recorded is what it says: from the recorder as it was, step by step.
LEMMA RecordedSteps ==
    ASSUME NEW rec, NEW ws, NEW n \in Nat, Len(ws) = n
    PROVE  \E f : /\ f[0] = rec
                  /\ \A i \in 1 .. n : f[i] = RecordSet(f[i - 1], ws[i].row, ws[i].raw)
                  /\ Recorded(rec, ws) = f[n]
<1> DEFINE Then(g, i) == RecordSet(g[i - 1], ws[i].row, ws[i].raw)
           Follows(g, k) == g = [i \in 0 .. k |-> IF i = 0 THEN rec ELSE Then(g, i)]
           T == {k \in Nat : \E g : Follows(g, k)}
<1>1. 0 \in T
  <2>1. PICK g : g = [i \in 0 .. 0 |-> rec]
    OBVIOUS
  <2>2. Follows(g, 0)
    BY <2>1
  <2> QED BY <2>2
<1>2. ASSUME NEW k \in Nat, k \in T
      PROVE  k + 1 \in T
  <2>1. PICK g : Follows(g, k)
    BY <1>2
  <2>2. PICK h : h = [i \in 0 .. k + 1 |-> IF i = 0 THEN rec ELSE Then(g, i)]
    OBVIOUS
  <2>3. \A i \in 0 .. k : h[i] = g[i]
    BY <2>1, <2>2
  <2>4. \A i \in 0 .. k + 1 : i # 0 => Then(g, i) = Then(h, i)
    BY <2>3
  <2>5. Follows(h, k + 1)
    BY <2>2, <2>4
  <2> QED BY <2>5
<1> HIDE DEF T
<1>3. n \in T
  BY <1>1, <1>2, FromZero
<1>4. PICK g : Follows(g, n)
  BY <1>3 DEF T
<1>5. \E f : Follows(f, n) /\ Recorded(rec, ws) = f[n]
  BY <1>4 DEF Recorded
<1> QED BY <1>5

\* A list of writes to rows.
IsWrites(ws) == IsList(ws) /\ \A i \in 1 .. Len(ws) : ws[i].row \in Int

\* What a list of writes does to a column, the recorder's recording remakes.
LEMMA RecordedWrites ==
    ASSUME NEW rec, IsRecorder(rec), rec.recording, NEW ws, IsWrites(ws),
           NEW start, NEW column, Remade(start, rec) = column
    PROVE  LET new == Recorded(rec, ws)
           IN  /\ IsRecorder(new)
               /\ new.recording
               /\ Remade(start, new) = Applied(column, ws)
<1>1. PICK n \in Nat : n = Len(ws)
  BY DEF IsWrites, IsList
<1>2. DOMAIN ws = 1 .. n /\ \A i \in 1 .. n : ws[i].row \in Int
  BY <1>1 DEF IsWrites, IsList
<1>3. PICK f : /\ f[0] = rec
               /\ \A i \in 1 .. n : f[i] = RecordSet(f[i - 1], ws[i].row, ws[i].raw)
               /\ Recorded(rec, ws) = f[n]
  BY <1>1, RecordedSteps, SMTT(30)
<1> DEFINE First(k) == [i \in 1 .. k |-> ws[i]]
           T == {k \in Nat : k <= n => /\ IsRecorder(f[k])
                                       /\ f[k].recording
                                       /\ Remade(start, f[k]) = Applied(column, First(k))}
<1>4. 0 \in T
  <2>1. Applied(column, First(0)) = Remade(start, rec)
    <3>1. DOMAIN First(0) = {}
      OBVIOUS
    <3>2. Applied(column, First(0)) = [r \in Rows |-> column[r]]
      BY <3>1 DEF Applied
    <3>3. column = [r \in Rows |-> column[r]]
      BY DEF Remade, Applied
    <3> QED BY <3>2, <3>3
  <2> HIDE DEF First
  <2> QED BY <1>3, <2>1
<1>5. ASSUME NEW k \in Nat, k \in T
      PROVE  k + 1 \in T
  <2> SUFFICES ASSUME k + 1 <= n
               PROVE  /\ IsRecorder(f[k + 1])
                      /\ f[k + 1].recording
                      /\ Remade(start, f[k + 1]) = Applied(column, First(k + 1))
    OBVIOUS
  <2>1. /\ IsRecorder(f[k]) /\ f[k].recording
        /\ Remade(start, f[k]) = Applied(column, First(k))
    BY <1>5
  <2>2. PICK r, raw : r = ws[k + 1].row /\ raw = ws[k + 1].raw
    OBVIOUS
  <2>3. k + 1 \in 1 .. n /\ (k + 1) - 1 = k
    OBVIOUS
  <2>4. r \in Int /\ f[k + 1] = RecordSet(f[k], r, raw)
    BY <1>2, <1>3, <2>2, <2>3
  <2>5. /\ IsRecorder(f[k + 1]) /\ f[k + 1].recording
        /\ Remade(start, f[k + 1]) = Stored(Remade(start, f[k]), r, raw)
    BY <2>1, <2>4, RecordedSet
  <2>6. GoesOn(First(k), k, First(k + 1), k + 1, r, raw)
    BY <2>2 DEF GoesOn
  <2>7. Applied(column, First(k + 1)) = Stored(Applied(column, First(k)), r, raw)
    BY <2>6, OneMore
  <2> HIDE DEF First
  <2> QED BY <2>1, <2>5, <2>7
<1> HIDE DEF T
<1>6. n \in T
  BY <1>4, <1>5, FromZero
<1>7. First(n) = ws
  BY <1>1 DEF IsWrites, IsList
<1> HIDE DEF First
<1> QED BY <1>3, <1>6, <1>7 DEF T

-----------------------------------------------------------------------------
\* The inductive invariant of the recorder: the cursor and what was copied lie
\* on rows, and while every write has gone to the recorder, replaying in place
\* makes the sheet from what it was when the recording began.
IsColumn(column) == column = [r \in Rows |-> column[r]]

Entries == UNION {[1 .. n -> {Blank} \cup {Text(t) : t \in Texts}] : n \in Nat}

CopiedOK == /\ clip # NoClip => clip.origin \in Rows /\ IsList(clip.grid)
            /\ clips \in Seq(Entries)

RecordingOK == exact => /\ IsRecorder(recorder)
                        /\ recorder.recording
                        /\ cells = Remade(base, recorder)

TapeInv == /\ row \in Rows
           /\ IsColumn(cells) /\ IsColumn(base)
           /\ CopiedOK
           /\ RecordingOK

\* Edits that the recorder is told of.
LEMMA EditRecorded ==
    ASSUME TapeInv, NEW ws, IsWrites(ws), Puts(ws)
    PROVE  IsColumn(cells') /\ IsColumn(base') /\ RecordingOK'
<1>1. IsColumn(cells')
  BY DEF Puts, Applied, IsColumn
<1>2. IsColumn(base')
  BY DEF Puts, TapeInv, IsColumn
<1>3. ASSUME exact PROVE RecordingOK'
  <2>1. IsRecorder(recorder) /\ recorder.recording /\ Remade(base, recorder) = cells
    BY <1>3 DEF TapeInv, RecordingOK
  <2>2. /\ recorder' = Recorded(recorder, ws) /\ cells' = Applied(cells, ws)
        /\ base' = base /\ exact' = exact
    BY DEF Puts
  <2>3. /\ IsRecorder(recorder') /\ recorder'.recording
        /\ Remade(base, recorder') = cells'
    BY <2>1, <2>2, RecordedWrites
  <2> QED BY <2>2, <2>3 DEF RecordingOK
<1>4. ASSUME ~ exact PROVE RecordingOK'
  BY <1>4 DEF Puts, RecordingOK
<1> QED BY <1>1, <1>2, <1>3, <1>4

-----------------------------------------------------------------------------
\* Lists of writes, as the commands make them.
LEMMA WritesListed ==
    ASSUME NEW n \in Nat, NEW ws, ws = [i \in 1 .. n |-> ws[i]],
           \A i \in 1 .. n : ws[i].row \in Int
    PROVE  IsWrites(ws)
BY Listed DEF IsWrites

LEMMA OneWrite ==
    ASSUME NEW r \in Rows, NEW raw
    PROVE  IsWrites(<<Write(r, raw)>>)
<1>1. PICK ws : ws = <<Write(r, raw)>>
  OBVIOUS
<1>2. ws = [i \in 1 .. 1 |-> ws[i]] /\ ws[1].row = r
  BY <1>1 DEF Write
<1>3. r \in Int
  BY TuiAssumption DEF Rows
<1>4. \A i \in 1 .. 1 : ws[i].row \in Int
  BY <1>2, <1>3
<1> QED BY <1>1, <1>2, <1>4, WritesListed

LEMMA PastedListed ==
    ASSUME NEW block, IsList(block), NEW by, NEW at \in Rows
    PROVE  IsWrites(PasteWrites(block, by, at))
<1>1. PICK ws : ws = PasteWrites(block, by, at)
  OBVIOUS
<1>2. PICK n \in Nat : n = Len(block)
  BY DEF IsList
<1>3. DOMAIN block = 1 .. n
  BY <1>2 DEF IsList
<1>4. ws = [i \in 1 .. n |-> Write(at + i - 1, Shifted(block[i], by))]
  BY <1>1, <1>3 DEF PasteWrites
<1>5. ws = [i \in 1 .. n |-> ws[i]]
  BY <1>4
<1>6. \A i \in 1 .. n : ws[i].row \in Int
  BY <1>4, TuiAssumption DEF Write, Rows
<1> QED BY <1>1, <1>5, <1>6, WritesListed

LEMMA EntryListed ==
    ASSUME NEW e \in Entries
    PROVE  IsList(e)
<1>1. PICK n \in Nat : e \in [1 .. n -> {Blank} \cup {Text(t) : t \in Texts}]
  BY DEF Entries
<1>2. e = [i \in 1 .. n |-> e[i]]
  BY <1>1
<1> QED BY <1>2, Listed

\* What a copied text does to the clipboard history.
LEMMA AddedEntry ==
    ASSUME NEW history \in Seq(Entries), NEW entry \in Entries
    PROVE  Added(history, entry) \in Seq(Entries)
<1> DEFINE known == {i \in DOMAIN history : history[i] = entry}
           kept == IF known = {} THEN history ELSE RemoveAt(history, CHOOSE i \in known : TRUE)
           front == <<entry>> \o kept
<1>1. kept \in Seq(Entries)
  <2>1. CASE known # {}
    <3>1. PICK i : i = CHOOSE j \in known : TRUE
      OBVIOUS
    <3>2. i \in 1 .. Len(history)
      BY <2>1, <3>1
    <3>3. RemoveAt(history, i) = SubSeq(history, 1, i - 1) \o SubSeq(history, i + 1, Len(history))
      BY DEF RemoveAt
    <3>4. SubSeq(history, 1, i - 1) \in Seq(Entries)
      BY <3>2, SubSeqProperties
    <3>5. SubSeq(history, i + 1, Len(history)) \in Seq(Entries)
      BY <3>2, SubSeqProperties
    <3>6. RemoveAt(history, i) \in Seq(Entries)
      BY <3>3, <3>4, <3>5, ConcatProperties
    <3> QED BY <2>1, <3>1, <3>6
  <2> QED BY <2>1
<1>2. front \in Seq(Entries)
  <2>1. <<entry>> \in Seq(Entries)
    OBVIOUS
  <2> HIDE DEF kept
  <2> QED BY <1>1, <2>1, ConcatProperties
<1>3. ASSUME NEW m \in 0 .. Len(front) PROVE SubSeq(front, 1, m) \in Seq(Entries)
  <2> HIDE DEF front
  <2> QED BY <1>2, SubSeqProperties
<1>4. (IF Len(front) > Capacity THEN Capacity ELSE Len(front)) \in 0 .. Len(front)
  <2>1. Len(front) \in Nat
    <3> HIDE DEF front
    <3> QED BY <1>2, LenProperties
  <2> HIDE DEF front
  <2> QED BY <2>1, TuiAssumption
<1>5. SubSeq(front, 1, IF Len(front) > Capacity THEN Capacity ELSE Len(front)) \in Seq(Entries)
  <2> HIDE DEF front
  <2> QED BY <1>3, <1>4
<1>6. Added(history, entry) =
          IF \A i \in DOMAIN entry : entry[i] = Blank THEN history
          ELSE SubSeq(front, 1, IF Len(front) > Capacity THEN Capacity ELSE Len(front))
  BY DEF Added
<1> QED BY <1>5, <1>6

LEMMA SortListed ==
    ASSUME NEW from \in Rows, NEW to \in from .. LastRow, NEW descending,
           Sort(from, to, descending)
    PROVE  \E ws : IsWrites(ws) /\ Puts(ws)
<1>1. PICK order : Puts([i \in 1 .. to - from + 1 |->
                            Write(from + i - 1, cells[order[from + i - 1]])])
  BY Zenon DEF Sort, Edit
<1>2. PICK n \in Nat : n = to - from + 1
  BY TuiAssumption DEF Rows
<1>3. PICK ws : ws = [i \in 1 .. n |-> Write(from + i - 1, cells[order[from + i - 1]])]
  OBVIOUS
<1>4. Puts(ws)
  BY <1>1, <1>2, <1>3
<1>5. ws = [i \in 1 .. n |-> ws[i]] /\ \A i \in 1 .. n : ws[i].row \in Int
  BY <1>3, TuiAssumption DEF Write, Rows
<1> QED BY <1>4, <1>5, WritesListed

LEMMA ReplaceListed ==
    ASSUME NEW old, NEW new, Replace(old, new)
    PROVE  \E ws : IsWrites(ws) /\ Puts(ws)
<1> DEFINE hits == {r \in Rows : cells[r] = old}
<1>1. PICK order \in [1 .. Cardinality(hits) -> hits] :
          Puts([i \in DOMAIN order |-> Write(order[i], new)])
  BY DEF Replace, Edit
<1>2. hits \subseteq Int /\ Cardinality(hits) \in Nat
  <2>1. IsFiniteSet(Rows)
    BY TuiAssumption, FS_Interval DEF Rows
  <2>2. IsFiniteSet(hits)
    BY <2>1, FS_Subset
  <2> QED BY <2>2, FS_CardinalityType, TuiAssumption DEF Rows
<1>3. PICK n \in Nat : n = Cardinality(hits)
  BY <1>2
<1> HIDE DEF hits
<1>4. PICK ws : ws = [i \in 1 .. n |-> Write(order[i], new)]
  OBVIOUS
<1>5. Puts(ws)
  BY <1>1, <1>3, <1>4
<1>6. ws = [i \in 1 .. n |-> ws[i]] /\ \A i \in 1 .. n : ws[i].row \in Int
  BY <1>2, <1>3, <1>4 DEF Write
<1> QED BY <1>5, <1>6, WritesListed

LEMMA FillListed ==
    ASSUME NEW from \in Rows, NEW to \in from .. LastRow,
           FillDown(from, to) \/ FillSeries(from, to)
    PROVE  \E ws : IsWrites(ws) /\ Puts(ws)
<1>1. CASE FillDown(from, to)
  <2>1. PICK n \in Nat : n = to - from
    BY TuiAssumption DEF Rows
  <2>2. PICK ws : ws = [i \in 1 .. n |-> Write(from + i, Shifted(cells[from], i))]
    OBVIOUS
  <2>3. Puts(ws)
    BY <1>1, <2>1, <2>2 DEF FillDown, Edit
  <2>4. ws = [i \in 1 .. n |-> ws[i]] /\ \A i \in 1 .. n : ws[i].row \in Int
    BY <2>2, TuiAssumption DEF Write, Rows
  <2> QED BY <2>3, <2>4, WritesListed
<1>2. CASE FillSeries(from, to)
  <2>1. PICK first \in from .. to + 1, next \in Typed \ {Blank} :
            Puts([i \in 1 .. to - first + 1 |->
                     Write(first + i - 1, IF first = from THEN Blank ELSE next)])
    BY <1>2, Zenon DEF FillSeries, Edit, EditCutShort
  <2>2. PICK n \in Nat : n = to - first + 1
    BY TuiAssumption DEF Rows
  <2>3. PICK raw : raw = IF first = from THEN Blank ELSE next
    OBVIOUS
  <2>4. PICK ws : ws = [i \in 1 .. n |-> Write(first + i - 1, raw)]
    OBVIOUS
  <2>5. Puts(ws)
    BY <2>1, <2>2, <2>3, <2>4
  <2>6. ws = [i \in 1 .. n |-> ws[i]] /\ \A i \in 1 .. n : ws[i].row \in Int
    BY <2>4, TuiAssumption DEF Write, Rows
  <2> QED BY <2>5, <2>6, WritesListed
<1> QED BY <1>1, <1>2

\* Commands that write through on_set and touch neither the cursor nor the
\* clipboards.
LEMMA EditsTape ==
    ASSUME TapeInv, NEW ws, IsWrites(ws), Puts(ws), UNCHANGED <<ui, copies>>
    PROVE  TapeInv'
<1>1. row' = row /\ clip' = clip /\ clips' = clips
  BY DEF ui, copies
<1>2. CopiedOK'
  BY <1>1 DEF TapeInv, CopiedOK
<1>3. row' \in Rows
  BY <1>1 DEF TapeInv
<1> QED BY <1>2, <1>3, EditRecorded DEF TapeInv

\* Commands after which nothing is claimed of the recording, or that have to do
\* with neither it nor the cells.
Rests == \/ exact' = FALSE
         \/ UNCHANGED <<cells, base, exact, recorder>>

LEMMA OthersTape ==
    ASSUME TapeInv, row' \in Rows, CopiedOK', IsColumn(cells'), IsColumn(base'), Rests
    PROVE  TapeInv'
<1>1. RecordingOK'
  BY DEF Rests, TapeInv, RecordingOK
<1> QED BY <1>1 DEF TapeInv, IsColumn

LEMMA CopyTape ==
    ASSUME TapeInv, NEW from \in Rows, NEW to \in from .. LastRow, Copy(from, to)
    PROVE  TapeInv'
<1>1. /\ UNCHANGED <<cells, base, exact, recorder, row>>
  BY DEF Copy, doc, ui, tape
<1>2. PICK n \in Nat : n = to - from + 1
  BY TuiAssumption DEF Rows
<1>3. PICK grid : grid = [i \in 1 .. n |-> cells[from + i - 1]]
  OBVIOUS
<1>4. IsList(grid)
  <2>1. grid = [i \in 1 .. n |-> grid[i]]
    BY <1>3
  <2> QED BY <2>1, Listed
<1>5. clip' = [origin |-> from, grid |-> grid]
  BY <1>2, <1>3 DEF Copy
<1>6. PICK entry \in [1 .. n -> {Blank} \cup {Text(t) : t \in Texts}] :
          clips' = Added(clips, entry)
  BY <1>2 DEF Copy
<1>7. clips' \in Seq(Entries)
  <2>1. entry \in Entries
    BY DEF Entries
  <2> QED BY <1>6, <2>1, AddedEntry DEF TapeInv, CopiedOK
<1>8. CopiedOK'
  <2>1. clip'.origin \in Rows /\ IsList(clip'.grid)
    BY <1>4, <1>5
  <2> QED BY <1>7, <2>1 DEF CopiedOK
<1>9. row' \in Rows /\ IsColumn(cells') /\ IsColumn(base')
  BY <1>1 DEF TapeInv
<1> QED BY <1>1, <1>8, <1>9, OthersTape DEF Rests

\* x on the cell under the cursor.
LEMMA ClearTape ==
    ASSUME TapeInv, ClearCell
    PROVE  TapeInv'
<1>1. /\ row \in Rows /\ IsColumn(cells) /\ IsColumn(base)
      /\ row' = row /\ clip' = clip /\ clips' = clips /\ base' = base /\ exact' = exact
      /\ recorder' = RecordClear(recorder, row)
      /\ cells' = [cells EXCEPT ![row] = Blank]
  BY DEF TapeInv, ClearCell, ui, copies
<1>2. cells' = Stored(cells, row, Blank)
  BY <1>1 DEF Stored, IsColumn
<1>3. IsColumn(cells')
  BY <1>2 DEF Stored, IsColumn
<1>4. ASSUME exact PROVE RecordingOK'
  <2>1. IsRecorder(recorder) /\ recorder.recording /\ cells = Remade(base, recorder)
    BY <1>4 DEF TapeInv, RecordingOK
  <2>2. row \in Int
    BY <1>1, TuiAssumption DEF Rows
  <2>3. PICK new : new = RecordClear(recorder, row)
    OBVIOUS
  <2>4. /\ IsRecorder(new) /\ new.recording
        /\ Remade(base, new) = Stored(cells, row, Blank)
    BY <2>1, <2>2, <2>3, RecordedClear
  <2> QED BY <1>1, <1>2, <2>3, <2>4 DEF RecordingOK
<1>5. ASSUME ~ exact PROVE RecordingOK'
  BY <1>1, <1>5 DEF RecordingOK
<1>6. CopiedOK'
  BY <1>1 DEF TapeInv, CopiedOK
<1> QED BY <1>1, <1>3, <1>4, <1>5, <1>6 DEF TapeInv, IsColumn

\* :rec start: nothing is recorded, and the sheet is what it is.
LEMMA NothingRemade ==
    ASSUME NEW rec, rec.actions = <<>>, NEW column, IsColumn(column)
    PROVE  Remade(column, rec) = column
<1>1. DOMAIN ReplayWrites(rec, 0) = {}
  BY DEF ReplayWrites
<1>2. Remade(column, rec) = [r \in Rows |-> column[r]]
  BY <1>1 DEF Remade, Applied
<1> QED BY <1>2 DEF IsColumn

LEMMA StartTape ==
    ASSUME TapeInv, NEW relative \in BOOLEAN, StartRecording(relative)
    PROVE  TapeInv'
<1>1. /\ recorder' = [recording |-> TRUE, relative |-> relative,
                      anchor |-> NoAnchor, actions |-> <<>>]
      /\ base' = cells /\ cells' = cells /\ row' = row /\ clip' = clip /\ clips' = clips
  BY DEF StartRecording, doc, ui, copies
<1>2. IsColumn(cells') /\ IsColumn(base') /\ row' \in Rows /\ CopiedOK'
  BY <1>1 DEF TapeInv, CopiedOK
<1>3. PICK new : new = recorder'
  OBVIOUS
<1>4. /\ new.actions = <<>> /\ new.recording
      /\ IsRecorder(new)
  <2>1. IsList(<<>>) /\ Len(<<>>) = 0
    BY EmptySeq, SeqIsList
  <2> QED BY <1>1, <1>3, <2>1, EmptySeq DEF IsRecorder, IsList
<1>5. Remade(cells, new) = cells
  BY <1>4, NothingRemade DEF TapeInv
<1>6. RecordingOK'
  BY <1>1, <1>3, <1>4, <1>5 DEF RecordingOK
<1> QED BY <1>2, <1>6 DEF TapeInv

LEMMA InitTape == Init => TapeInv
<1> SUFFICES ASSUME Init PROVE TapeInv
  OBVIOUS
<1>1. row \in Rows
  BY TuiAssumption DEF Init, Rows
<1>2. IsColumn(cells) /\ IsColumn(base)
  BY DEF Init, IsColumn
<1>3. CopiedOK
  BY EmptySeq DEF Init, CopiedOK
<1> QED BY <1>1, <1>2, <1>3 DEF TapeInv, RecordingOK, Init

LEMMA StepTape == TapeInv /\ [Next]_vars => TapeInv'
<1> SUFFICES ASSUME TapeInv, [Next]_vars PROVE TapeInv'
  OBVIOUS
<1>1. ASSUME NEW r \in Rows, Move(r) PROVE TapeInv'
  <2>1. UNCHANGED <<cells, base, exact, recorder, clip, clips>> /\ row' \in Rows
    BY <1>1 DEF Move, doc, copies, tape
  <2> QED BY <2>1, OthersTape DEF TapeInv, CopiedOK, IsColumn, Rests
<1>2. ASSUME NEW r \in Rows, Paste(r) PROVE TapeInv'
  <2>1. IsWrites(PasteWrites(clip.grid, r - clip.origin, r))
    BY <1>2, PastedListed DEF Paste, TapeInv, CopiedOK
  <2> QED BY <1>2, <2>1, EditsTape DEF Paste, Edit
<1>3. ASSUME NEW c \in Typed, CommitInsert(c) PROVE TapeInv'
  <2>1. IsWrites(<<Write(row, c)>>)
    BY OneWrite DEF TapeInv
  <2> QED BY <1>3, <2>1, EditsTape DEF CommitInsert, Edit
<1>4. CASE ClearCell
  BY <1>4, ClearTape
<1>5. ASSUME NEW from \in Rows, NEW to \in from .. LastRow,
             \/ Copy(from, to) \/ FillDown(from, to) \/ FillSeries(from, to)
             \/ Format(from .. to)
             \/ \E descending \in BOOLEAN : Sort(from, to, descending)
      PROVE  TapeInv'
  <2>1. CASE Copy(from, to)
    BY <2>1, CopyTape
  <2>2. CASE FillDown(from, to) \/ FillSeries(from, to)
    <3>1. UNCHANGED <<ui, copies>>
      BY <2>2 DEF FillDown, FillSeries
    <3> QED BY <2>2, <3>1, FillListed, EditsTape
  <2>3. CASE Format(from .. to)
    <3>1. UNCHANGED <<cells, base, exact, recorder, row, clip, clips>>
      BY <2>3 DEF Format, ui, copies, tape
    <3> QED BY <3>1, OthersTape DEF TapeInv, CopiedOK, IsColumn, Rests
  <2>4. ASSUME NEW descending \in BOOLEAN, Sort(from, to, descending) PROVE TapeInv'
    <3>1. UNCHANGED <<ui, copies>>
      BY <2>4, Zenon DEF Sort
    <3> QED BY <2>4, <3>1, SortListed, EditsTape
  <2> QED BY <1>5, <2>1, <2>2, <2>3, <2>4
<1>6. ASSUME NEW i \in 1 .. Capacity, PasteHistory(i) PROVE TapeInv'
  <2>1. i \in DOMAIN clips /\ Puts(PasteWrites(clips[i], 0, row)) /\ UNCHANGED <<ui, copies>>
    BY <1>6 DEF PasteHistory, Edit
  <2>2. clips[i] \in Entries
    BY <2>1 DEF TapeInv, CopiedOK
  <2>3. IsWrites(PasteWrites(clips[i], 0, row))
    BY <2>2, EntryListed, PastedListed DEF TapeInv
  <2> QED BY <2>1, <2>3, EditsTape
<1>7. ASSUME NEW t \in Texts, NEW u \in Texts, Replace(Text(t), Text(u)) PROVE TapeInv'
  <2>1. UNCHANGED <<ui, copies>>
    BY <1>7, Zenon DEF Replace
  <2> QED BY <1>7, <2>1, ReplaceListed, EditsTape
<1>8. ASSUME UNCHANGED <<ui, copies, base>>, exact' = FALSE, IsColumn(cells')
      PROVE  TapeInv'
  <2>1. row' = row /\ clip' = clip /\ clips' = clips /\ base' = base
    BY <1>8 DEF ui, copies
  <2>2. row' \in Rows /\ CopiedOK' /\ IsColumn(base')
    BY <2>1 DEF TapeInv, CopiedOK
  <2> QED BY <1>8, <2>2, OthersTape DEF Rests
<1>9. ASSUME NEW ws, EditUnrecorded(ws), UNCHANGED <<ui, copies>> PROVE TapeInv'
  <2>1. IsColumn(cells')
    BY <1>9 DEF EditUnrecorded, Applied, IsColumn
  <2> QED BY <1>8, <1>9, <2>1 DEF EditUnrecorded
<1>10. ASSUME NEW t \in Texts, StoreNumber(t) PROVE TapeInv'
  BY <1>9, <1>10 DEF StoreNumber
<1>11. ASSUME NEW r \in Rows, NEW c \in Typed, Python(r, c) PROVE TapeInv'
  <2>1. IsColumn(cells')
    BY <1>11 DEF Python, TapeInv, IsColumn
  <2> QED BY <1>8, <1>11, <2>1 DEF Python
<1>12. ASSUME NEW relative \in BOOLEAN, StartRecording(relative) PROVE TapeInv'
  BY <1>12, StartTape
<1>13. CASE StopRecording
  <2>1. IsColumn(cells') /\ UNCHANGED <<ui, copies, base>> /\ exact' = FALSE
    BY <1>13 DEF StopRecording, TapeInv, IsColumn, doc
  <2> QED BY <1>8, <2>1
<1>14. CASE Replay \/ RunMacro
  BY <1>9, <1>14 DEF Replay, RunMacro
<1>15. CASE SaveMacro \/ Quit \/ (\E quit \in BOOLEAN : Save(quit)) \/ UNCHANGED vars
  <2>1. UNCHANGED <<cells, base, exact, recorder, row, clip, clips>>
    <3>1. ASSUME NEW quit \in BOOLEAN, Save(quit)
          PROVE  UNCHANGED <<cells, base, exact, recorder, row, clip, clips>>
      BY <3>1 DEF Save, copies, tape
    <3>2. CASE SaveMacro \/ Quit
      BY <3>2 DEF SaveMacro, Quit, doc, ui, copies, tape
    <3>3. CASE UNCHANGED vars
      BY <3>3 DEF vars, doc, ui, copies, tape
    <3> QED BY <1>15, <3>1, <3>2, <3>3
  <2> QED BY <2>1, OthersTape DEF TapeInv, CopiedOK, IsColumn, Rests
<1> QED
  BY <1>1, <1>2, <1>3, <1>4, <1>5, <1>6, <1>7, <1>10, <1>11, <1>12, <1>13, <1>14, <1>15
  DEF Next

\* The invariant of the recorder (MacroRecorder, core/fill.py), on which the
\* theorem below rests.
THEOREM TapeInvariant == Spec => []TapeInv
BY InitTape, StepTape, PTL DEF Spec

-----------------------------------------------------------------------------
\* A recording that remakes a column where it was made remakes it further down
\* as well.
LEMMA RemadeAnywhere ==
    ASSUME NEW rec, IsRecorder(rec), NEW column, NEW by \in Int,
           NEW r \in Rows, r - by \in Rows
    PROVE  Applied(Slid(column, by), ReplayWrites(rec, by))[r]
               = Shifted(Remade(column, rec)[r - by], by)
<1>1. PICK s : s = rec.actions
  OBVIOUS
<1>2. PICK n \in Nat : n = Len(s)
  BY <1>1 DEF IsRecorder, IsList
<1>3. DOMAIN s = 1 .. n /\ \A i \in 1 .. n : IsAction(s[i])
  BY <1>1, <1>2 DEF IsRecorder, IsList
<1>4. PICK vs : vs = ReplayWrites(rec, 0)
  OBVIOUS
<1>5. PICK ws : ws = ReplayWrites(rec, by)
  OBVIOUS
<1>6. PICK q \in Rows : q = r - by
  OBVIOUS
<1>7. /\ DOMAIN vs = 1 .. n
      /\ \A i \in 1 .. n : vs[i].row = s[i].row /\ vs[i].raw = s[i].raw
  BY <1>1, <1>2, <1>4, WritesInPlace
<1>8. DOMAIN ws = 1 .. n
  BY <1>1, <1>3, <1>5 DEF ReplayWrites
<1>9. ASSUME NEW i \in 1 .. n
      PROVE  (ws[i].row = r <=> vs[i].row = q) /\ ws[i].raw = Shifted(vs[i].raw, by)
  <2>1. ws[i] = Write(s[i].row + by, IF s[i].kind = "set" THEN Shifted(s[i].raw, by) ELSE Blank)
    BY <1>1, <1>3, <1>5 DEF ReplayWrites
  <2>2. s[i].row \in Int /\ s[i].kind \in {"set", "clear"}
        /\ (s[i].kind = "clear" => s[i].raw = Blank)
    BY <1>3 DEF IsAction
  <2>3. Shifted(Blank, by) = Blank
    BY DEF Shifted, Blank
  <2>4. ws[i].row = s[i].row + by /\ ws[i].raw = Shifted(s[i].raw, by)
    BY <2>1, <2>2, <2>3 DEF Write
  <2>5. r \in Int /\ (s[i].row + by = r <=> s[i].row = r - by)
    BY <2>2, TuiAssumption DEF Rows
  <2> QED BY <1>6, <1>7, <2>4, <2>5
<1>10. Slid(column, by)[r] = Shifted(column[q], by)
  BY <1>6 DEF Slid
<1>11. CASE \A i \in 1 .. n : vs[i].row # q
  <2>1. \A i \in 1 .. n : ws[i].row # r
    BY <1>9, <1>11
  <2>2. Applied(column, vs)[q] = column[q]
    BY <1>7, <1>11, LastCounts
  <2>3. Applied(Slid(column, by), ws)[r] = Slid(column, by)[r]
    <3>1. PICK c : c = Slid(column, by)
      OBVIOUS
    <3> QED BY <1>8, <2>1, <3>1, LastCounts
  <2> QED BY <1>4, <1>5, <1>6, <1>10, <2>2, <2>3 DEF Remade
<1>12. CASE ~ \A i \in 1 .. n : vs[i].row # q
  <2>1. PICK k \in 1 .. n : /\ vs[k].row = q
                            /\ \A i \in k + 1 .. n : vs[i].row # q
                            /\ Applied(column, vs)[q] = vs[k].raw
    <3>1. DOMAIN vs = 1 .. n
      BY <1>7
    <3>2. \/ /\ \A i \in 1 .. n : vs[i].row # q
             /\ Applied(column, vs)[q] = column[q]
          \/ \E k \in 1 .. n : /\ vs[k].row = q
                               /\ \A i \in k + 1 .. n : vs[i].row # q
                               /\ Applied(column, vs)[q] = vs[k].raw
      BY <3>1, LastCounts, SMTT(30)
    <3> QED BY <1>12, <3>2, Zenon
  <2>2. ws[k].row = r /\ \A i \in k + 1 .. n : ws[i].row # r
    BY <1>9, <2>1
  <2>3. Applied(Slid(column, by), ws)[r] = ws[k].raw
    <3>1. PICK c : c = Slid(column, by)
      OBVIOUS
    <3>2. DOMAIN ws = 1 .. n /\ k \in 1 .. n
      BY <1>8
    <3>3. Applied(c, ws)[r] = ws[k].raw
      BY <2>2, <3>2, LastIs
    <3> QED BY <3>1, <3>3
  <2> QED BY <1>4, <1>5, <1>6, <1>9, <2>1, <2>3 DEF Remade
<1> QED BY <1>11, <1>12

\* While every write since the recording began went through the recorder,
\* replaying it gives the sheet as it is now, in place and, for a relative
\* recording, further up or down (MacroRecorder.record_set, replay).
THEOREM Replayed == Spec => []ReplayReproduces
<1>1. TapeInv => ReplayReproduces
  <2> SUFFICES ASSUME TapeInv, exact, recorder.recording,
                      NEW by \in IF recorder.relative THEN -1 .. 1 ELSE {0},
                      NEW r \in Rows, r - by \in Rows
               PROVE  Applied(Slid(base, by), ReplayWrites(recorder, by))[r]
                          = Shifted(cells[r - by], by)
    BY DEF ReplayReproduces
  <2>1. by \in Int
    OBVIOUS
  <2>2. IsRecorder(recorder) /\ cells = Remade(base, recorder)
    BY DEF TapeInv, RecordingOK
  <2> QED BY <2>1, <2>2, RemadeAnywhere
<1> QED BY <1>1, TapeInvariant, PTL
=============================================================================
