---------------------------- MODULE ConsoleBridge ----------------------------
(***************************************************************************)
(* User code outside the window's process (abax/gui/console/               *)
(* console_bridge.py, abax/console_worker.py) and its two callers: the     *)
(* Python console, which waits for the answer in a thread of its own       *)
(* (gui/console/pyconsole.py), and macros and scripts, which the window     *)
(* waits for (gui/mixin_macros.py).  Each caller has a bridge, and each     *)
(* bridge at most one worker process, started when it is needed.           *)
(*                                                                         *)
(* A command takes a copy of the workbook (its envelope) along and brings   *)
(* one back, which replaces the workbook.  The workbook is the set of      *)
(* changes made to it, numbered as they come; a command's change has the    *)
(* command's number.  Processes may be killed, or die, between any steps.   *)
(*                                                                         *)
(* A command may also start programs of its own, which inherit the worker's *)
(* stdin, stdout and stderr, write there and live on when the worker has    *)
(* ended.  What they write is a scrap in the pipe between the answers: short *)
(* (one to three bytes) or longer than the header of a frame.               *)
(***************************************************************************)
EXTENDS Integers, Sequences

CONSTANTS
    MaxChanges,     \* bound on edits and commands together
    Littering       \* the bridges whose commands start other programs, or write
                    \* to the pipe themselves

Bridges == {"console", "macro"}

None == 0

Request(id, book) == [id |-> id, envelope |-> book]

\* What an answer does with the workbook: none is crashed for a macro alone.
Answer(request, book, outcome) ==
    [id |-> request.id, envelope |-> book, outcome |-> outcome]

\* Output of other programs on the pipe.
Scrap(size) == Answer(Request(0, {}), {}, size)
Scraps      == {Scrap("short"), Scrap("long")}

ASSUME BridgeAssumption == MaxChanges \in Nat /\ Littering \subseteq Bridges

VARIABLES
    book,        \* the workbook of the window's document
    made,        \* number of changes and commands so far
    overlap,     \* changes made since the console's command took its copy
    running,     \* PyConsole._thread is not None
    events,      \* what the console's thread has sent to the window
    closing,     \* "no", "waiting" for the console's thread, "closed"
    call,        \* bridge -> its _roundtrip
    proc,        \* bridge -> _proc, a position in workers or None
    workers      \* every process ever started

gui  == <<book, made, overlap, running, events, closing>>
vars == <<book, made, overlap, running, events, closing, call, proc, workers>>

NoRequest == Request(0, {})
Idle      == [at |-> "idle", request |-> NoRequest, on |-> None, answer |-> Answer(NoRequest, {}, "none")]

Init == /\ book = {}
        /\ made = 0
        /\ overlap = {}
        /\ running = FALSE
        /\ events = <<>>
        /\ closing = "no"
        /\ call = [b \in Bridges |-> Idle]
        /\ proc = [b \in Bridges |-> None]
        /\ workers = <<>>

-----------------------------------------------------------------------------
\* The window handles one thing at a time, and waits for macros.
Responsive == closing = "no" /\ call["macro"].at = "idle"

Fresh == made + 1

\* An edit in the grid, as any change of the workbook by other means.
Edit ==
    /\ Responsive
    /\ made < MaxChanges
    /\ made' = Fresh
    /\ book' = book \cup {Fresh}
    /\ overlap' = IF running THEN overlap \cup {Fresh} ELSE overlap
    /\ UNCHANGED <<running, events, closing, call, proc, workers>>

Start(b) ==
    call' = [call EXCEPT ![b] = [Idle EXCEPT !.at = "check", !.request = Request(Fresh, book)]]

\* PyConsole._run, when no command is running.
RunConsole ==
    /\ Responsive
    /\ ~ running
    /\ made < MaxChanges
    /\ made' = Fresh
    /\ running' = TRUE
    /\ overlap' = {}
    /\ Start("console")
    /\ UNCHANGED <<book, events, closing, proc, workers>>

\* MacroMixin._run_macro and run_script: the window waits.
RunMacro ==
    /\ Responsive
    /\ made < MaxChanges
    /\ made' = Fresh
    /\ Start("macro")
    /\ UNCHANGED <<book, overlap, running, events, closing, proc, workers>>

\* _apply_exec_response: only a run that succeeded changes the workbook.
MacroReturns ==
    /\ call["macro"].at = "answer"
    /\ LET a == call["macro"].answer
       IN  IF a.outcome = "done"
           THEN /\ book' = a.envelope
                /\ overlap' = IF running THEN overlap \cup {a.id} ELSE overlap
           ELSE UNCHANGED <<book, overlap>>
    /\ call' = [call EXCEPT !["macro"] = Idle]
    /\ UNCHANGED <<made, running, events, closing, proc, workers>>

Killed(w) == [workers EXCEPT ![w].life = IF @ = "alive" THEN "killed" ELSE @]

\* ConsoleBridge.interrupt, by the console's button.
Interrupt ==
    /\ Responsive
    /\ running
    /\ proc["console"] # None
    /\ workers[proc["console"]].life = "alive"
    /\ workers' = Killed(proc["console"])
    /\ UNCHANGED <<book, made, overlap, running, events, closing, call, proc>>

\* PyConsole._on_result: any answer but a crash replaces the workbook.
OnResult ==
    /\ Responsive
    /\ events # <<>>
    /\ Head(events).outcome # "finished"
    /\ book' = IF Head(events).outcome = "crashed" THEN book ELSE Head(events).envelope
    /\ events' = Tail(events)
    /\ UNCHANGED <<made, overlap, running, closing, call, proc, workers>>

\* _teardown_thread: the console takes the next command.
Teardown ==
    /\ Responsive
    /\ events # <<>>
    /\ Head(events).outcome = "finished"
    /\ events' = Tail(events)
    /\ running' = FALSE
    /\ UNCHANGED <<book, made, overlap, closing, call, proc, workers>>

\* PyConsole._shutdown, with the window: kill the worker, then wait.
Close ==
    /\ Responsive
    /\ closing' = "waiting"
    /\ workers' = IF proc["console"] = None THEN workers ELSE Killed(proc["console"])
    /\ UNCHANGED <<book, made, overlap, running, events, call, proc>>

\* Mutant of CloseBridges: the bridges forget their processes.
CloseBridgesOnly ==
    /\ closing = "waiting"
    /\ call["console"].at \in {"idle", "read"}
    /\ closing' = "closed"
    /\ proc' = [b \in Bridges |-> None]
    /\ UNCHANGED <<book, made, overlap, running, events, call, workers>>

\* The stderr of process w does not end while a program holds it.
ErrorsWithheld(w) == workers[w].life = "dead" /\ workers[w].child

\* The wait ends with the thread, or after three seconds, which is enough for
\* the thread to get as far as a read of what does not come.  Both bridges
\* terminate their workers.
CloseBridges ==
    /\ closing = "waiting"
    /\ \/ call["console"].at \in {"idle", "read"}
       \/ call["console"].at = "failed" /\ ErrorsWithheld(call["console"].on)
    /\ closing' = "closed"
    /\ workers' = [w \in DOMAIN workers |->
                      IF \E b \in Bridges : proc[b] = w /\ workers[w].life = "alive"
                      THEN [workers[w] EXCEPT !.life = "killed"] ELSE workers[w]]
    /\ proc' = [b \in Bridges |-> None]
    /\ UNCHANGED <<book, made, overlap, running, events, call>>

-----------------------------------------------------------------------------
(* ConsoleBridge._roundtrip, in the console's thread or in the window.      *)

Goes(b, at) == call' = [call EXCEPT ![b].at = at]

\* A process that was killed may still look alive to poll().
Check(b) ==
    /\ call[b].at = "check"
    /\ IF proc[b] # None /\ workers[proc[b]].life # "dead"
       THEN call' = [call EXCEPT ![b].at = "write", ![b].on = proc[b]]
       ELSE Goes(b, "spawn")
    /\ UNCHANGED <<gui, proc, workers>>

Process(b) == [bridge |-> b, life |-> "alive", inbox |-> <<>>, job |-> NoRequest,
               hung |-> FALSE, child |-> FALSE, outbox |-> <<>>]

Spawn(b) ==
    /\ call[b].at = "spawn"
    /\ workers' = Append(workers, Process(b))
    /\ proc' = [proc EXCEPT ![b] = Len(workers')]
    /\ call' = [call EXCEPT ![b].at = "write", ![b].on = Len(workers')]
    /\ UNCHANGED gui

\* Writing to a dead process breaks the pipe, unless a program still holds the
\* other end; one that was killed may still take the request.
Write(b) ==
    /\ call[b].at = "write"
    /\ LET w == call[b].on
       IN  \/ /\ workers[w].life # "dead"
              /\ workers' = [workers EXCEPT ![w].inbox = Append(@, call[b].request)]
              /\ Goes(b, "read")
           \/ /\ workers[w].life = "dead" /\ workers[w].child
              /\ Goes(b, "read")
              /\ UNCHANGED workers
           \/ /\ workers[w].life # "alive" /\ ~ workers[w].child
              /\ Goes(b, "failed")
              /\ UNCHANGED workers
    /\ UNCHANGED <<gui, proc>>

\* _read_frame: a whole frame, even from a process that has died since.
Read(b) ==
    /\ call[b].at = "read"
    /\ workers[call[b].on].outbox # <<>>
    /\ Head(workers[call[b].on].outbox) \notin Scraps
    /\ call' = [call EXCEPT ![b].at = "answer", ![b].answer = Head(workers[call[b].on].outbox)]
    /\ workers' = [workers EXCEPT ![call[b].on].outbox = Tail(@)]
    /\ UNCHANGED <<gui, proc>>

\* A long scrap passes for the length of a frame far longer than anything that
\* comes.
Garbled(w) == workers[w].outbox # <<>> /\ Head(workers[w].outbox) = Scrap("long")

\* Half of a header is no frame: a short scrap, if nothing has followed it yet,
\* even of a process that is at work.  So is the end of the stream, within a
\* frame or before it, when nobody holds the pipe any more.
ReadNothing(b) ==
    /\ call[b].at = "read"
    /\ LET w == call[b].on
       IN  \/ workers[w].outbox # <<>> /\ Head(workers[w].outbox) = Scrap("short")
           \/ /\ workers[w].life = "dead" /\ ~ workers[w].child
              /\ workers[w].outbox = <<>> \/ Garbled(w)
    /\ Goes(b, "failed")
    /\ UNCHANGED <<gui, proc, workers>>

\* _dead_reason waits a second for the process and, if it has ended, reads its
\* stderr to the end.  Then the bridge drops the worker, living or dead, and
\* answers in its place.
Fail(b) ==
    /\ call[b].at = "failed"
    /\ ~ ErrorsWithheld(call[b].on)
    /\ proc' = [proc EXCEPT ![b] = None]
    /\ call' = [call EXCEPT ![b].at = "answer",
                            ![b].answer = Answer(call[b].request, call[b].request.envelope, "crashed")]
    /\ UNCHANGED <<gui, workers>>

\* Mutant of Emit: the thread says that it has finished, and then hands over.
EmitFinishedFirst ==
    /\ call["console"].at = "answer"
    /\ events' = IF closing = "no"
                 THEN events \o <<Answer(NoRequest, {}, "finished"), call["console"].answer>>
                 ELSE events
    /\ call' = [call EXCEPT !["console"] = Idle]
    /\ UNCHANGED <<book, made, overlap, running, closing, proc, workers>>

\* FuncWorker.run: the thread hands the answer over and ends.
Emit ==
    /\ call["console"].at = "answer"
    /\ events' = IF closing = "no"
                 THEN events \o <<call["console"].answer, Answer(NoRequest, {}, "finished")>>
                 ELSE events
    /\ call' = [call EXCEPT !["console"] = Idle]
    /\ UNCHANGED <<book, made, overlap, running, closing, proc, workers>>

-----------------------------------------------------------------------------
(* console_worker.main, in process w.                                       *)

Busy(w) == workers[w].life = "alive" /\ workers[w].job # NoRequest /\ ~ workers[w].hung

Receive(w) ==
    /\ workers[w].life = "alive"
    /\ workers[w].job = NoRequest
    /\ workers[w].inbox # <<>>
    /\ workers' = [workers EXCEPT ![w].job = Head(workers[w].inbox), ![w].inbox = Tail(@)]
    /\ UNCHANGED <<gui, call, proc>>

\* What a pipe holds when x follows: it goes under in a scrap before it.
Piped(pipe, x) ==
    IF pipe # <<>> /\ pipe[Len(pipe)] \in Scraps
    THEN [pipe EXCEPT ![Len(pipe)] = Scrap("long")]
    ELSE Append(pipe, x)

Reply(w, answer) ==
    workers' = [workers EXCEPT ![w].job = NoRequest, ![w].outbox = Piped(@, answer)]

\* Mutant of Finish: an error is reported and then answered again.
FinishTwice(w) ==
    /\ Busy(w)
    /\ LET job   == workers[w].job
           after == job.envelope \cup {job.id}
       IN  \/ Reply(w, Answer(job, after, "done"))
           \/ \E left \in {job.envelope, after} :
                 workers' = [workers EXCEPT ![w].job = NoRequest,
                                ![w].outbox = Piped(Piped(@, Answer(job, left, "error")),
                                                    Answer(job, left, "error"))]
    /\ UNCHANGED <<gui, call, proc>>

\* Mutant of Finish: an error ends the command without an answer.
FinishSilently(w) ==
    /\ Busy(w)
    /\ LET job   == workers[w].job
           after == job.envelope \cup {job.id}
       IN  \/ Reply(w, Answer(job, after, "done"))
           \/ workers' = [workers EXCEPT ![w].job = NoRequest]
    /\ UNCHANGED <<gui, call, proc>>

\* The code has run, or raised an error before or after its change, or was
\* refused, which is also an error.
Finish(w) ==
    /\ Busy(w)
    /\ LET job   == workers[w].job
           after == job.envelope \cup {job.id}
       IN  \/ Reply(w, Answer(job, after, "done"))
           \/ \E left \in {job.envelope, after} : Reply(w, Answer(job, left, "error"))
    /\ UNCHANGED <<gui, call, proc>>

\* The code starts a program that it does not wait for, or waits for one.
StartProgram(w) ==
    /\ Busy(w) /\ workers[w].bridge \in Littering
    /\ ~ workers[w].child
    /\ workers' = [workers EXCEPT ![w].child = TRUE]
    /\ UNCHANGED <<gui, call, proc>>

\* That program ends; nothing makes it.
ProgramEnds(w) ==
    /\ workers[w].child
    /\ workers' = [workers EXCEPT ![w].child = FALSE]
    /\ UNCHANGED <<gui, call, proc>>

\* Running code, or a program of an earlier command, writes to the descriptor
\* of the pipe, which only sys.stdout was taken off.
Stray(w) ==
    /\ workers[w].bridge \in Littering
    /\ \/ workers[w].life = "alive" /\ workers[w].job # NoRequest
       \/ workers[w].child
    /\ \E x \in Scraps : workers' = [workers EXCEPT ![w].outbox = Piped(@, x)]
    /\ workers' # workers
    /\ UNCHANGED <<gui, call, proc>>

\* The code runs on for ever.
Hang(w) ==
    /\ Busy(w)
    /\ workers' = [workers EXCEPT ![w].hung = TRUE]
    /\ UNCHANGED <<gui, call, proc>>

\* Of a process that has ended, what it has written is left.
Ended(w) == [workers EXCEPT ![w].life = "dead", ![w].inbox = <<>>, ![w].job = NoRequest,
                            ![w].hung = FALSE]

\* The code, a resource limit or the system ends the process.
Die(w) ==
    /\ workers[w].life = "alive"
    /\ workers' = Ended(w)
    /\ UNCHANGED <<gui, call, proc>>

\* A killed process has gone.
Reap(w) ==
    /\ workers[w].life = "killed"
    /\ workers' = Ended(w)
    /\ UNCHANGED <<gui, call, proc>>

-----------------------------------------------------------------------------
Bridge(b) == \/ Check(b) \/ Spawn(b) \/ Write(b) \/ Read(b) \/ ReadNothing(b) \/ Fail(b)

Window == MacroReturns \/ OnResult \/ Teardown \/ CloseBridges

User == Edit \/ RunConsole \/ RunMacro \/ Interrupt \/ Close

Worker(w) == Receive(w) \/ Finish(w) \/ Hang(w) \/ Reap(w)

Others(w) == StartProgram(w) \/ ProgramEnds(w) \/ Stray(w) \/ Die(w)

Next == \/ User
        \/ Window
        \/ Emit
        \/ \E b \in Bridges : Bridge(b)
        \/ \E w \in DOMAIN workers : Worker(w) \/ Others(w)

\* The threads and the event loop go on, and so do processes, killed ones to
\* their end.  Nothing makes the user act, a process die or another program end.
Fairness ==
    /\ WF_vars(Window)
    /\ WF_vars(Emit)
    /\ \A b \in Bridges : WF_vars(Bridge(b))
    /\ \A w \in 1 .. MaxChanges : WF_vars(w \in DOMAIN workers /\ Worker(w))

Spec == Init /\ [][Next]_vars /\ Fairness

-----------------------------------------------------------------------------
\* No answer goes to another command than the one that was sent, though killed
\* processes leave answers behind and a bridge outlives its processes.
AnswersMatch ==
    \A b \in Bridges : call[b].at = "answer" => call[b].answer.id = call[b].request.id

\* A living process is the one that its bridge would kill, and none is left when
\* the window has closed, except those whose pipe broke off in a scrap: a bridge
\* gives up a worker at a short one, and never stops it.
NoOrphans ==
    \A w \in DOMAIN workers :
        workers[w].life = "alive" =>
            \/ closing # "closed" /\ proc[workers[w].bridge] = w
            \/ workers[w].outbox # <<>> /\ Head(workers[w].outbox) \in Scraps

\* An answer replaces the whole workbook: what goes with it was changed while
\* that very command was running, never before.
LossesOverlap == [][book \ book' \subseteq overlap]_vars

\* What holds up the call of a bridge: code that runs for ever, output that
\* garbles the stream of a living worker, or, when the worker has ended, a
\* program that holds on to its pipes.
HeldUp(b) ==
    /\ call[b].at \in {"read", "failed"}
    /\ LET w == call[b].on
       IN  IF workers[w].life = "alive" THEN workers[w].hung \/ Garbled(w)
                                        ELSE workers[w].child

\* Every command comes to an end unless its code holds it up: however processes
\* die, the console takes another command and the window wakes from a macro.
\* With an interrupt, only a program that outlives the worker holds it up.
CommandsEnd ==
    /\ running ~> (~ running \/ HeldUp("console") \/ HeldUp("macro") \/ closing # "no")
    /\ (call["macro"].at # "idle") ~> (call["macro"].at = "idle" \/ HeldUp("macro"))

-----------------------------------------------------------------------------
(* What the code says of itself and does not do.                            *)

\* "A blocked execute() then returns a crashed response (its read hits EOF)":
\* an interrupt frees the console when the command has been given to the worker
\* that it kills.  A macro may still hold up the window.
InterruptFrees ==
    (call["console"].at = "read" /\ workers[call["console"].on].life = "killed")
        ~> (~ running \/ HeldUp("macro") \/ closing # "no")

\* "the console process exited" is what a command is told of a worker that has.
ExitedMeansDead ==
    \A b \in Bridges :
        call[b].at = "answer" /\ call[b].answer.outcome = "crashed" =>
            workers[call[b].on].life # "alive"
=============================================================================
