----------------------------- MODULE PtyTerminal -----------------------------
(***************************************************************************)
(* The terminal dock: a shell in a pseudo-terminal (abax/core/ptyterm.py,  *)
(* its POSIX half) and the view that paints it (abax/gui/console/          *)
(* ptyterminal.py).  Three parties run at once: the processes that have    *)
(* the terminal open, a daemon thread that reads what they write and feeds *)
(* the screen, and the window's thread, which paints the screen from a     *)
(* timer, sends keys and closes the terminal.  A fourth stands for any     *)
(* other thread of the program that opens a file or a pipe: the system     *)
(* gives it the lowest free descriptor, which may be the one the terminal  *)
(* has closed.                                                             *)
(*                                                                         *)
(* Output is a sequence of chunks, numbered as they are written; the       *)
(* screen is the sequence fed to the emulator.  Output never has to end:   *)
(* after MaxOutput chunks it goes on, and what comes then is counted while *)
(* it waits to be read, but not told apart.  The lock of the screen is     *)
(* held within one action only, so it needs no variable.                   *)
(***************************************************************************)
EXTENDS Integers, Sequences

CONSTANTS
    MaxOutput,   \* bound on the chunks that are numbered
    MaxKeys,     \* bound on the keys typed
    Room,        \* how much the terminal holds unread, in each direction
    OtherSize    \* chunks of the file or pipe that another thread opens

ASSUME PtyAssumption == /\ {MaxOutput, MaxKeys, OtherSize} \subseteq Nat
                        /\ Room \in Nat \ {0}

Foreign == 0     \* a chunk of the other thread's file

VARIABLES
    procs,       \* the processes that have the terminal open
    written,     \* numbered chunks written so far
    pty,         \* those of them that are not yet read
    more,        \* the count of later chunks that are not yet read
    keys,        \* keys sent and not yet read
    typed,       \* keys sent so far
    fd,          \* what the descriptor's number names: "none", "pty", "file", "pipe"
    master,      \* _master_fd is not None
    stop,        \* _stop is set
    reader,      \* the reader thread: the step it is at, the bytes in its hand
    screen,      \* chunks fed to the screen
    gui,         \* the step the window's thread is at
    timer,       \* PtyView._timer is active
    shown,       \* how much of the screen the painted cells and cursor know
    rest         \* chunks of the other file or pipe not read yet

terminal == <<procs, written, pty, more, keys>>
window   == <<gui, timer, shown, typed>>
ptyVars  == <<terminal, fd, master, stop, reader, screen, window, rest>>

PtyInit == /\ procs = {} /\ written = 0 /\ pty = <<>> /\ more = 0 /\ keys = 0
           /\ fd = "none" /\ master = FALSE /\ stop = FALSE /\ rest = 0
           /\ reader = [at |-> "none", data |-> <<>>]
           /\ screen = <<>>
           /\ gui = "new" /\ timer = FALSE /\ typed = 0
           /\ shown = [cells |-> 0, cursor |-> 0]

-----------------------------------------------------------------------------
\* The processes: an interactive shell and a job it may leave behind.

Alive == "shell" \in procs

Unread == Len(pty) + more

\* One more chunk of output, when the terminal has room for it.
Output == /\ fd = "pty" /\ Unread < Room
          /\ \/ /\ written < MaxOutput
                /\ written' = written + 1
                /\ pty' = Append(pty, written + 1)
                /\ UNCHANGED more
             \/ /\ written = MaxOutput
                /\ more' = more + 1
                /\ UNCHANGED <<written, pty>>

Writes == /\ procs # {}
          /\ Output
          /\ UNCHANGED <<procs, keys, fd, master, stop, reader, screen, window, rest>>

\* The shell reads a key, unless it is held up by its output, and echoes it.
ReadsKey ==
    /\ Alive /\ keys > 0
    /\ Output
    /\ keys' = keys - 1
    /\ UNCHANGED <<procs, fd, master, stop, reader, screen, window, rest>>

LeavesJob == /\ Alive
             /\ procs' = procs \cup {"job"}
             /\ UNCHANGED <<written, pty, more, keys, fd, master, stop, reader, screen, window, rest>>

\* A process ends: by itself, by close()'s terminate, or by the hangup.
Exits(p) == /\ p \in procs
            /\ procs' = procs \ {p}
            /\ UNCHANGED <<written, pty, more, keys, fd, master, stop, reader, screen, window, rest>>

\* Another thread opens a file once the descriptor is free, or starts a worker
\* and gets a pipe; it reads from it, and keeps it open.
OpenOther == /\ stop /\ fd = "none"
             /\ fd' \in {"file", "pipe"}
             /\ rest' = OtherSize
             /\ UNCHANGED <<terminal, master, stop, reader, screen, window>>

OtherReads == /\ fd \in {"file", "pipe"} /\ rest > 0
              /\ rest' = rest - 1
              /\ UNCHANGED <<terminal, fd, master, stop, reader, screen, window>>

-----------------------------------------------------------------------------
\* _read_loop_posix.

Goto(step) == /\ reader' = [reader EXCEPT !.at = step]
              /\ UNCHANGED <<terminal, fd, master, stop, screen, window, rest>>

\* fd = self._master_fd; the assertion ends the thread when it is None.
Begin == /\ reader.at = "begin"
         /\ Goto(IF master THEN "top" ELSE "ended")

\* Mutant of Top: nobody looks at _stop.
TopForever == reader.at = "top" /\ Goto("select")

\* while not self._stop.is_set()
Top == /\ reader.at = "top"
       /\ Goto(IF stop THEN "ended" ELSE "select")

HungUp == fd = "pty" /\ procs = {}

\* What select calls ready: there is something to read, or nothing will come.
Ready == \/ fd = "pty" /\ (Unread > 0 \/ HungUp)
         \/ fd = "file"
         \/ fd = "pipe" /\ rest > 0

SelectReady == /\ reader.at = "select" /\ Ready
               /\ Goto("read")

SelectFails == /\ reader.at = "select" /\ fd = "none"
               /\ Goto("ended")

\* Mutant of SelectTimesOut: a quiet terminal ends the thread.
TimesOutEnds == /\ reader.at = "select" /\ ~ Ready
                /\ Goto("ended")

\* Nothing within a tenth of a second.
SelectTimesOut == /\ reader.at = "select" /\ ~ Ready
                  /\ Goto("alive")

\* Mutant of CheckAlive: the thread goes on for ever.
NeverChecks == reader.at = "alive" /\ Goto("top")

\* if not self._isalive_unlocked(): break.  Only the shell counts.
CheckAlive == /\ reader.at = "alive"
              /\ Goto(IF Alive THEN "top" ELSE "ended")

\* os.read: some of what is there, of whatever the number names by now.
Read == /\ reader.at = "read" /\ fd = "pty" /\ pty # <<>>
        /\ \E n \in 1 .. Len(pty) :
              /\ reader' = [at |-> "feed", data |-> SubSeq(pty, 1, n)]
              /\ pty' = SubSeq(pty, n + 1, Len(pty))
        /\ UNCHANGED <<procs, written, more, keys, fd, master, stop, screen, window, rest>>

\* Of what comes after the numbered chunks nothing is kept.
ReadMore == /\ reader.at = "read" /\ fd = "pty" /\ pty = <<>> /\ more > 0
            /\ reader' = [reader EXCEPT !.at = "feed"]
            /\ more' \in 0 .. more - 1
            /\ UNCHANGED <<procs, written, pty, keys, fd, master, stop, screen, window, rest>>

ReadForeign == /\ reader.at = "read" /\ fd \in {"file", "pipe"} /\ rest > 0
               /\ reader' = [at |-> "feed", data |-> <<Foreign>>]
               /\ rest' = rest - 1
               /\ UNCHANGED <<terminal, fd, master, stop, screen, window>>

\* A closed descriptor, a terminal that hung up, the end of the other file.  An
\* empty pipe has no end while both its ends are open, and the read waits.
ReadFails == /\ reader.at = "read"
             /\ fd = "none" \/ (HungUp /\ Unread = 0) \/ (fd = "file" /\ rest = 0)
             /\ Goto("ended")

\* Mutant of Feed: writing holds the lock of the screen.
FeedLocked == /\ reader.at = "feed" /\ gui # "write"
              /\ screen' = screen \o reader.data
              /\ reader' = [at |-> "top", data |-> <<>>]
              /\ UNCHANGED <<terminal, fd, master, stop, window, rest>>

\* self._stream.feed(data), under the lock.
Feed == /\ reader.at = "feed"
        /\ screen' = screen \o reader.data
        /\ reader' = [at |-> "top", data |-> <<>>]
        /\ UNCHANGED <<terminal, fd, master, stop, window, rest>>

\* The emulator raises an exception, which nobody catches: the thread ends with
\* the chunk in its hand.
FeedFails == /\ reader.at = "feed" /\ reader.data # <<>>
             /\ Goto("ended")

ReaderStep == \/ Begin \/ Top \/ SelectReady \/ SelectFails \/ SelectTimesOut
              \/ CheckAlive \/ Read \/ ReadMore \/ ReadForeign \/ ReadFails \/ Feed

-----------------------------------------------------------------------------
\* The window's thread.

\* PtyView.start and PtyTerminal.start, which end with a first poll.
Start == /\ gui = "new"
         /\ procs' = {"shell"}
         /\ fd' = "pty"
         /\ master' = TRUE
         /\ reader' = [reader EXCEPT !.at = "begin"]
         /\ timer' = TRUE
         /\ gui' = "poll"
         /\ UNCHANGED <<written, pty, more, keys, stop, screen, shown, typed, rest>>

\* The shell cannot be spawned: the terminal's master stays open.
StartFails == /\ gui = "new"
              /\ fd' = "pty"
              /\ master' = TRUE
              /\ gui' = "failed"
              /\ UNCHANGED <<terminal, stop, reader, screen, timer, shown, typed, rest>>

\* PtyView._poll takes the lock twice, and then asks whether the shell lives.
Poll == /\ gui = "poll" \/ (gui = "idle" /\ timer)
        /\ shown' = [shown EXCEPT !.cells = Len(screen)]
        /\ gui' = "cursor"
        /\ UNCHANGED <<terminal, fd, master, stop, reader, screen, timer, typed, rest>>

PollCursor == /\ gui = "cursor"
              /\ shown' = [shown EXCEPT !.cursor = Len(screen)]
              /\ gui' = "alive"
              /\ UNCHANGED <<terminal, fd, master, stop, reader, screen, timer, typed, rest>>

PollAlive == /\ gui = "alive"
             /\ timer' = (timer /\ Alive)
             /\ gui' = "idle"
             /\ UNCHANGED <<terminal, fd, master, stop, reader, screen, shown, typed, rest>>

\* keyPressEvent and write: os.write waits while the terminal has no room.
Type == /\ gui = "idle" /\ typed < MaxKeys
        /\ typed' = typed + 1
        /\ gui' = "write"
        /\ UNCHANGED <<terminal, fd, master, stop, reader, screen, timer, shown, rest>>

Written == /\ gui = "write" /\ keys < Room
           /\ keys' = keys + 1
           /\ gui' = "idle"
           /\ UNCHANGED <<procs, written, pty, more, fd, master, stop, reader, screen, timer, shown, typed, rest>>

WriteFails == /\ gui = "write" /\ HungUp
              /\ gui' = "idle"
              /\ UNCHANGED <<terminal, fd, master, stop, reader, screen, timer, shown, typed, rest>>

\* closeEvent and PtyTerminal.close: _stop is set, the shell is sent a signal
\* that it may ignore, the master is closed, the thread is waited for.
Close == /\ gui = "idle"
         /\ timer' = FALSE
         /\ stop' = TRUE
         /\ gui' = "close"
         /\ UNCHANGED <<terminal, fd, master, reader, screen, shown, typed, rest>>

CloseMaster == /\ gui = "close"
               /\ fd' = "none"
               /\ master' = FALSE
               /\ gui' = "join"
               /\ UNCHANGED <<terminal, stop, reader, screen, timer, shown, typed, rest>>

\* join(timeout=2.0) returns when the thread has ended, or gives up.
Join == /\ gui = "join"
        /\ gui' = "closed"
        /\ UNCHANGED <<terminal, fd, master, stop, reader, screen, timer, shown, typed, rest>>

GuiStep == \/ Poll \/ PollCursor \/ PollAlive \/ Written \/ WriteFails
           \/ CloseMaster \/ Join

PtyNext == \/ Writes \/ ReadsKey \/ LeavesJob
           \/ \E p \in {"shell", "job"} : Exits(p)
           \/ OpenOther \/ OtherReads
           \/ ReaderStep \/ FeedFails
           \/ GuiStep \/ Start \/ StartFails \/ Type \/ Close

(***************************************************************************)
(* The system runs both threads, and Qt serves the timer and finishes what *)
(* it began.  The shell reads its input, and gets its turn when others     *)
(* keep the terminal full: the system lets one process at a time write to  *)
(* it, and the others wait in line.  Nobody is bound to type, to write, to *)
(* exit or to close, nor to stop writing.                                  *)
(***************************************************************************)
Fairness == WF_ptyVars(ReaderStep) /\ WF_ptyVars(GuiStep) /\ SF_ptyVars(ReadsKey)

PtySpec == PtyInit /\ [][PtyNext]_ptyVars /\ Fairness

-----------------------------------------------------------------------------
Taken == screen \o reader.data

(***************************************************************************)
(* What the reader has taken is what was written, in order and without a   *)
(* gap, up to what the terminal still holds.  The reader keeps the         *)
(* descriptor's number for as long as it runs, and close() closes it under *)
(* its feet: it may then read a file that another thread has just opened.  *)
(* As _stop is set before the master is closed, that is one chunk at the   *)
(* most, and the last thing the reader takes.                              *)
(***************************************************************************)
TakesWhatWasWritten ==
    LET own == written - Len(pty)
    IN  /\ Len(Taken) \in own .. own + 1
        /\ \A i \in 1 .. own : Taken[i] = i
        /\ Len(Taken) = own + 1 => Taken[own + 1] = Foreign /\ stop
        /\ \A i \in 1 .. Len(pty) : pty[i] = own + i

\* The emulator has ended the reader.
Choked == reader.at = "ended" /\ reader.data # <<>>

(***************************************************************************)
(* A key that finds the terminal full holds the window up, but not for     *)
(* ever while the shell reads its input: the reader goes on without the    *)
(* window, so a shell held up by output, be it endless, is set free.  An   *)
(* emulator that chokes does hold up the window.                           *)
(***************************************************************************)
KeysGetThrough == gui = "write" ~> (gui # "write" \/ ~ Alive \/ Choked)

(***************************************************************************)
(* What is written while the shell runs and the view is open gets to the   *)
(* painted cells and to the cursor.  The shell's last words may be missed  *)
(* twice: by the reader, when they come between its time-out and its look  *)
(* at the process, and by the view, whose timer stops with the process and *)
(* not with the reader.                                                    *)
(***************************************************************************)
OutputShown ==
    \A n \in 1 .. MaxOutput :
        written >= n ~> \/ shown.cells >= n /\ shown.cursor >= n
                        \/ ~ Alive \/ stop \/ Choked

Started == gui \notin {"new", "failed"}

(***************************************************************************)
(* The reader thread ends after the view is closed, unless it meets a pipe *)
(* in the terminal's place; and it ends after its shell if no job goes on  *)
(* writing: a silent one does not keep it.                                 *)
(***************************************************************************)
ReaderEnds ==
    /\ stop ~> (reader.at = "ended" \/ fd = "pipe")
    /\ <>[](Started /\ ~ stop /\ ~ Alive /\ (procs = {} \/ Unread = 0)) => <>(reader.at = "ended")

(***************************************************************************)
(* What the docstring of _read_loop says (core/ptyterm.py:157): "Read PTY   *)
(* bytes until the child exits".  A job that the shell has left behind and  *)
(* that keeps writing keeps the reader, which looks at the child only when *)
(* the terminal has been silent for a tenth of a second.                   *)
(***************************************************************************)
ReadsUntilExit == (Started /\ ~ Alive) ~> (reader.at = "ended" \/ stop)
=============================================================================
