-------------------------- MODULE ConsoleBridgeProofs --------------------------
(***************************************************************************)
(* Proofs about ConsoleBridge, for any number of changes and commands and  *)
(* so of processes and programs: an answer belongs to the command that is  *)
(* waiting, and a living process is left behind only at a broken pipe.     *)
(***************************************************************************)
EXTENDS ConsoleBridge, TLAPS, SequenceTheorems

Requests == [id : Nat, envelope : SUBSET Nat]
Answers  == [id : Nat, envelope : SUBSET Nat,
             outcome : {"none", "done", "error", "short", "long", "crashed"}]
Calls    == [at : {"idle", "check", "spawn", "write", "read", "failed", "answer"},
             request : Requests, on : Nat, answer : Answers]
Processes == [bridge : Bridges, life : {"alive", "killed", "dead"}, inbox : Seq(Requests),
              job : Requests, hung : BOOLEAN, child : BOOLEAN,
              outbox : Seq(Answers)]

\* The console's thread has ended.
Finished == Answer(NoRequest, {}, "finished")

Types == /\ book \in SUBSET Nat /\ made \in Nat /\ running \in BOOLEAN
         /\ closing \in {"no", "waiting", "closed"}
         /\ call \in [Bridges -> Calls] /\ proc \in [Bridges -> Nat]
         /\ workers \in Seq(Processes)

-----------------------------------------------------------------------------
\* A pipe that holds no answer, and a process at whose pipe nobody finds one.
Foreign(pipe) == pipe = <<>> \/ \E x \in Scraps : pipe = <<x>>
Broken(p)     == p.outbox # <<>> /\ Head(p.outbox) \in Scraps

\* A process that holds nothing of any command.
Silent(p) == p.inbox = <<>> /\ p.job = NoRequest /\ Foreign(p.outbox)

\* An answer to a request: it has the request's number, and holds the copy of
\* the workbook that went with it, with the command's own change or without.
Meets(a, request) == /\ a.id = request.id
                     /\ request.envelope \subseteq a.envelope
                     /\ a.envelope \subseteq request.envelope \cup {request.id}

\* A pipe with the answer to a request, and perhaps a scrap behind it.
Replies(pipe, request) ==
    \E a \in Answers : /\ Meets(a, request)
                       /\ pipe = <<a>> \/ \E x \in Scraps : pipe = <<a, x>>

\* A process that somebody waits for holds the request, works on it, has
\* answered it or never got it or will not answer.
Serves(p, request) ==
    \/ p.inbox = <<request>> /\ p.job = NoRequest /\ Foreign(p.outbox)
    \/ p.inbox = <<>> /\ p.job = request /\ Foreign(p.outbox)
    \/ p.inbox = <<>> /\ p.job = NoRequest /\ (Foreign(p.outbox) \/ Replies(p.outbox, request))

\* What holds of a bridge, its call and the processes it knows.
BridgeOK(b) ==
    /\ proc[b] # None => proc[b] \in DOMAIN workers /\ workers[proc[b]].bridge = b
    /\ call[b].at \in {"write", "read", "failed"} =>
           /\ call[b].on \in DOMAIN workers /\ workers[call[b].on].bridge = b
           /\ proc[b] = call[b].on \/ closing = "closed"
    /\ call[b].at = "spawn" /\ proc[b] # None => workers[proc[b]].life # "alive"
    /\ call[b].at = "failed" /\ proc[b] # None =>
           workers[proc[b]].life # "alive" \/ Broken(workers[proc[b]])
    /\ call[b].at \notin {"read", "failed"} /\ proc[b] # None => Silent(workers[proc[b]])
    /\ call[b].at = "read" => Serves(workers[call[b].on], call[b].request)
    /\ call[b].at = "answer" => Meets(call[b].answer, call[b].request)

\* While the window closes, no macro runs; when it has closed, no call is on
\* its way to a process.
ClosingOK ==
    /\ closing # "no" => call["macro"].at = "idle"
    /\ closing = "closed" =>
           \A b \in Bridges : call[b].at \notin {"check", "spawn", "write"} /\ proc[b] = None

\* The console takes a command only when the last one's thread has ended and
\* everything that it sent has been handled.
EventsOK ==
    /\ \/ events = <<>> \/ events = <<Finished>>
       \/ \E a \in Answers : events = <<a, Finished>>
    /\ call["console"].at # "idle" \/ ~ running => events = <<>>
    /\ call["console"].at # "idle" => running

\* What the console's command may overwrite has been changed since it took its
\* copy; while a macro runs, the window waits and nothing is.
BookOK ==
    /\ call["console"].at # "idle" => book \subseteq call["console"].request.envelope \cup overlap
    /\ \A a \in Answers : events = <<a, Finished>> =>
           a.outcome = "crashed" \/ book \subseteq a.envelope \cup overlap
    /\ call["macro"].at # "idle" => call["macro"].request.envelope = book

IInv == /\ Types
        /\ EventsOK
        /\ BookOK
        /\ \A b \in Bridges : BridgeOK(b)
        /\ ClosingOK
        /\ NoOrphans

-----------------------------------------------------------------------------
\* What is true of a process stays true when it is killed or dies.
Keeps(new, old) == /\ new.bridge = old.bridge /\ new.inbox = old.inbox
                   /\ new.job = old.job /\ new.outbox = old.outbox
                   /\ new.life = "alive" => old.life = "alive"
                   /\ old.life = "dead" => new.life = "dead"

\* A bridge whose call goes on as before, and whose processes hold what they
\* held.
LEMMA BridgeRests ==
    ASSUME NEW b \in Bridges, BridgeOK(b), call'[b] = call[b], proc'[b] = proc[b],
           closing = "closed" => closing' = "closed",
           \A w \in DOMAIN workers : workers[w].bridge = b =>
               w \in DOMAIN workers' /\ Keeps(workers'[w], workers[w])
    PROVE  BridgeOK(b)'
BY DEF BridgeOK, Keeps, Silent, Serves, Broken

\* The sequence of processes.
LEMMA WorkersAre ==
    ASSUME Types
    PROVE  /\ Len(workers) \in Nat /\ DOMAIN workers = 1 .. Len(workers)
           /\ \A w \in DOMAIN workers : workers[w] \in Processes
BY LenProperties, ElementOfSeq DEF Types

LEMMA OneChanges ==
    ASSUME Types, NEW w \in DOMAIN workers, NEW p \in Processes,
           workers' = [workers EXCEPT ![w] = p]
    PROVE  /\ workers' \in Seq(Processes) /\ DOMAIN workers' = DOMAIN workers
           /\ workers'[w] = p
           /\ \A v \in DOMAIN workers : v # w => workers'[v] = workers[v]
BY WorkersAre DEF Types

\* A step of process w: it says how w changes, and nothing else does.
LEMMA WorkerChanges ==
    ASSUME IInv, NEW w \in DOMAIN workers, NEW p \in Processes,
           workers' = [workers EXCEPT ![w] = p], UNCHANGED <<gui, call, proc>>,
           p.bridge = workers[w].bridge, p.life = "alive" => workers[w].life = "alive",
           Silent(workers[w]) => Silent(p), Broken(workers[w]) => Broken(p),
           \A r \in Requests : Serves(workers[w], r) => Serves(p, r)
    PROVE  IInv'
<1> USE DEF gui
<1>1. /\ workers' \in Seq(Processes) /\ DOMAIN workers' = DOMAIN workers
      /\ workers'[w] = p /\ \A v \in DOMAIN workers : v # w => workers'[v] = workers[v]
  BY OneChanges DEF IInv
<1>2. Types'
  BY <1>1 DEF IInv, Types
<1>3. ASSUME NEW b \in Bridges PROVE BridgeOK(b)'
  <2>1. BridgeOK(b) /\ call[b].request \in Requests
    BY DEF IInv, Types, Calls
  <2> QED BY <1>1, <2>1 DEF BridgeOK
<1>4. ClosingOK' /\ EventsOK' /\ BookOK'
  BY DEF IInv, ClosingOK, EventsOK, BookOK
<1>5. NoOrphans'
  BY <1>1 DEF IInv, NoOrphans, Broken
<1> QED BY <1>2, <1>3, <1>4, <1>5 DEF IInv

LEMMA InitInv == Init => IInv
<1> SUFFICES ASSUME Init PROVE IInv
  OBVIOUS
<1>1. NoRequest \in Requests /\ Answer(NoRequest, {}, "none") \in Answers
  BY DEF NoRequest, Request, Requests, Answer, Answers
<1>2. Types
  BY <1>1, EmptySeq DEF Init, Types, Calls, Idle, None
<1>3. BookOK
  BY DEF Init, BookOK, Idle, Bridges
<1> QED
  BY <1>2, <1>3 DEF Init, IInv, BridgeOK, ClosingOK, EventsOK, NoOrphans, Idle, None, Bridges

-----------------------------------------------------------------------------
\* The processes.

LEMMA ReceiveInv == ASSUME IInv, NEW w \in DOMAIN workers, Receive(w) PROVE IInv'
<1> DEFINE p == [workers[w] EXCEPT !.job = Head(workers[w].inbox), !.inbox = Tail(@)]
<1>1. /\ workers[w] \in Processes /\ workers[w].inbox \in Seq(Requests)
      /\ workers[w].inbox # <<>> /\ workers[w].job = NoRequest
  BY WorkersAre DEF IInv, Processes, Receive
<1>2. Head(workers[w].inbox) \in Requests /\ Tail(workers[w].inbox) \in Seq(Requests)
  BY <1>1, HeadTailProperties
<1>3. /\ p \in Processes /\ p.bridge = workers[w].bridge /\ p.life = workers[w].life
      /\ p.inbox = Tail(workers[w].inbox) /\ p.job = Head(workers[w].inbox)
      /\ p.outbox = workers[w].outbox
  BY <1>1, <1>2 DEF Processes
<1>4. workers' = [workers EXCEPT ![w] = p] /\ UNCHANGED <<gui, call, proc>>
  BY <1>1 DEF Receive, Processes
<1>5. ASSUME NEW r \in Requests, Serves(workers[w], r) PROVE Serves(p, r)
  <2>1. workers[w].inbox = <<r>> /\ Foreign(workers[w].outbox)
    BY <1>1, <1>5 DEF Serves
  <2>2. Head(<<r>>) = r /\ Tail(<<r>>) = <<>>
    OBVIOUS
  <2> QED BY <1>3, <2>1, <2>2 DEF Serves
<1> HIDE DEF p
<1> QED BY <1>1, <1>3, <1>4, <1>5, WorkerChanges DEF Silent, Broken

\* What is put into a pipe.
LEMMA PipedIs ==
    ASSUME NEW x \in Answers
    PROVE  /\ \A pipe \in Seq(Answers) : Piped(pipe, x) \in Seq(Answers)
           /\ \A pipe \in Seq(Answers) : pipe # <<>> /\ Head(pipe) \in Scraps =>
                  Piped(pipe, x) # <<>> /\ Head(Piped(pipe, x)) \in Scraps
           /\ Piped(<<>>, x) = <<x>>
           /\ \A y \in Scraps : Piped(<<y>>, x) = <<Scrap("long")>>
           /\ \A a \in Answers : a \notin Scraps => Piped(<<a>>, x) = <<a, x>>
           /\ \A a \in Answers, y \in Scraps : Piped(<<a, y>>, x) = <<a, Scrap("long")>>
<1>1. Scraps \subseteq Answers /\ Scrap("long") \in Scraps
  BY DEF Scraps, Scrap, Answer, Answers, Request
<1> HIDE DEF Scraps, Scrap
<1>2. ASSUME NEW pipe \in Seq(Answers)
      PROVE  /\ Piped(pipe, x) \in Seq(Answers)
             /\ pipe # <<>> /\ Head(pipe) \in Scraps =>
                    Piped(pipe, x) # <<>> /\ Head(Piped(pipe, x)) \in Scraps
  <2>1. CASE pipe # <<>> /\ pipe[Len(pipe)] \in Scraps
    BY <1>1, <2>1 DEF Piped
  <2>2. CASE ~ (pipe # <<>> /\ pipe[Len(pipe)] \in Scraps)
    <3>1. Piped(pipe, x) = Append(pipe, x)
      BY <2>2 DEF Piped
    <3> QED BY <3>1, AppendProperties
  <2> QED BY <2>1, <2>2
<1>3. Piped(<<>>, x) = <<x>>
  BY DEF Piped
<1>4. ASSUME NEW y \in Scraps PROVE Piped(<<y>>, x) = <<Scrap("long")>>
  BY <1>1 DEF Piped
<1>5. ASSUME NEW a \in Answers, a \notin Scraps PROVE Piped(<<a>>, x) = <<a, x>>
  <2>1. <<a>> # <<>> /\ Len(<<a>>) = 1 /\ <<a>>[1] = a
    OBVIOUS
  <2>2. Piped(<<a>>, x) = Append(<<a>>, x)
    BY <1>5, <2>1 DEF Piped
  <2>3. Append(<<a>>, x) = <<a, x>>
    <3>1. /\ <<a, x>> \in Seq(Answers) /\ Len(<<a, x>>) = 2
          /\ Append(<<a>>, x) \in Seq(Answers) /\ Len(Append(<<a>>, x)) = 2
      OBVIOUS
    <3>2. \A i \in 1 .. 2 : Append(<<a>>, x)[i] = <<a, x>>[i]
      OBVIOUS
    <3> QED BY <3>1, <3>2, SeqEqual
  <2> QED BY <2>2, <2>3
<1>6. ASSUME NEW a \in Answers, NEW y \in Scraps PROVE Piped(<<a, y>>, x) = <<a, Scrap("long")>>
  BY <1>1 DEF Piped
<1> QED BY <1>2, <1>3, <1>4, <1>5, <1>6

\* A scrap that follows what is in the pipe changes no answer.
LEMMA ScrapFollows ==
    ASSUME NEW pipe \in Seq(Answers), NEW x \in Scraps
    PROVE  /\ Foreign(pipe) => Foreign(Piped(pipe, x))
           /\ \A r \in Requests : Replies(pipe, r) =>
                  Replies(Piped(pipe, x), r) \/ Foreign(Piped(pipe, x))
<1>1. Scraps \subseteq Answers /\ Scrap("long") \in Scraps
  BY DEF Scraps, Scrap, Answer, Answers, Request
<1> HIDE DEF Scraps, Scrap
<1>2. ASSUME Foreign(pipe) PROVE Foreign(Piped(pipe, x))
  <2>1. x \in Answers
    BY <1>1
  <2>2. CASE pipe = <<>>
    BY <2>1, <2>2, PipedIs DEF Foreign
  <2>3. CASE \E y \in Scraps : pipe = <<y>>
    <3>1. PICK y \in Scraps : pipe = <<y>>
      BY <2>3
    <3>2. Piped(pipe, x) = <<Scrap("long")>>
      BY <2>1, <3>1, PipedIs
    <3> QED BY <1>1, <3>2 DEF Foreign
  <2> QED BY <1>2, <2>2, <2>3 DEF Foreign
<1>3. ASSUME NEW r \in Requests, Replies(pipe, r)
      PROVE  Replies(Piped(pipe, x), r) \/ Foreign(Piped(pipe, x))
  <2>1. PICK a \in Answers : /\ Meets(a, r)
                             /\ pipe = <<a>> \/ \E y \in Scraps : pipe = <<a, y>>
    BY <1>3 DEF Replies
  <2>2. CASE pipe = <<a>> /\ a \in Scraps
    BY <1>1, <2>2, PipedIs DEF Foreign
  <2>3. CASE pipe = <<a>> /\ a \notin Scraps
    BY <1>1, <2>1, <2>3, PipedIs DEF Replies
  <2>4. CASE \E y \in Scraps : pipe = <<a, y>>
    BY <1>1, <2>1, <2>4, PipedIs DEF Replies
  <2> QED BY <2>1, <2>2, <2>3, <2>4
<1> QED BY <1>2, <1>3

\* A process that hands an answer over to its pipe.
LEMMA ReplyInv ==
    ASSUME IInv, NEW w \in DOMAIN workers, Busy(w), NEW a \in Answers,
           Reply(w, a), UNCHANGED <<gui, call, proc>>, Meets(a, workers[w].job)
    PROVE  IInv'
<1> DEFINE p == [workers[w] EXCEPT !.job = NoRequest, !.outbox = Piped(@, a)]
<1>1. /\ workers[w] \in Processes /\ workers[w].outbox \in Seq(Answers)
      /\ workers[w].job # NoRequest
  BY WorkersAre DEF IInv, Processes, Busy
<1>2. NoRequest \in Requests /\ Piped(workers[w].outbox, a) \in Seq(Answers)
  BY <1>1, PipedIs DEF NoRequest, Request, Requests
<1>3. /\ p \in Processes /\ p.bridge = workers[w].bridge /\ p.life = workers[w].life
      /\ p.inbox = workers[w].inbox /\ p.job = NoRequest
      /\ p.outbox = Piped(workers[w].outbox, a)
  BY <1>1, <1>2 DEF Processes
<1>4. workers' = [workers EXCEPT ![w] = p]
  BY <1>1 DEF Reply, Processes
<1> HIDE DEF p
<1>5. ASSUME NEW r \in Requests, Serves(workers[w], r) PROVE Serves(p, r)
  <2>1. workers[w].inbox = <<>> /\ workers[w].job = r /\ Foreign(workers[w].outbox)
    BY <1>1, <1>5 DEF Serves
  <2>2. Scrap("long") \in Scraps
    BY DEF Scraps
  <2>3. Foreign(p.outbox) \/ Replies(p.outbox, r)
    BY <1>3, <2>1, <2>2, PipedIs DEF Foreign, Replies
  <2> QED BY <1>3, <2>1, <2>3 DEF Serves
<1>6. Broken(workers[w]) => Broken(p)
  BY <1>1, <1>3, PipedIs DEF Broken
<1> QED BY <1>1, <1>3, <1>4, <1>5, <1>6, WorkerChanges DEF Silent

\* The answers that a worker makes.
LEMMA AnswersAre ==
    ASSUME NEW job \in Requests, NEW left \in SUBSET Nat,
           NEW outcome \in {"done", "error", "crashed"}
    PROVE  /\ Answer(job, left, outcome) \in Answers
           /\ Answer(job, left, outcome).id = job.id
           /\ Answer(job, left, outcome).outcome = outcome
           /\ Answer(job, left, outcome).envelope = left
           /\ job.envelope \in SUBSET Nat /\ job.envelope \cup {job.id} \in SUBSET Nat
BY DEF Answer, Answers, Requests

LEMMA FinishInv == ASSUME IInv, NEW w \in DOMAIN workers, Finish(w) PROVE IInv'
<1> DEFINE job == workers[w].job
<1>1. /\ job \in Requests /\ job.envelope \in SUBSET Nat
      /\ job.envelope \cup {job.id} \in SUBSET Nat
  BY WorkersAre, AnswersAre DEF IInv, Processes, Requests
<1>2. PICK left \in {job.envelope, job.envelope \cup {job.id}}, outcome \in {"done", "error"} :
          Reply(w, Answer(job, left, outcome))
  BY <1>1 DEF Finish
<1>3. Busy(w) /\ UNCHANGED <<gui, call, proc>>
  BY DEF Finish
<1>4. Answer(job, left, outcome) \in Answers /\ Meets(Answer(job, left, outcome), job)
  BY <1>1, AnswersAre DEF Meets
<1> HIDE DEF job
<1> QED BY <1>2, <1>3, <1>4, ReplyInv DEF job

\* Other programs and what they write.
LEMMA StrayInv == ASSUME IInv, NEW w \in DOMAIN workers, Stray(w) PROVE IInv'
<1>1. PICK x \in Scraps : workers' = [workers EXCEPT ![w].outbox = Piped(@, x)]
  BY DEF Stray
<1> DEFINE p == [workers[w] EXCEPT !.outbox = Piped(@, x)]
<1>2. /\ workers[w] \in Processes /\ workers[w].outbox \in Seq(Answers) /\ x \in Answers
      /\ Piped(workers[w].outbox, x) \in Seq(Answers)
  <2>1. x \in Answers
    BY DEF Scraps, Scrap, Answer, Answers, Request
  <2>2. workers[w] \in Processes /\ workers[w].outbox \in Seq(Answers)
    BY WorkersAre DEF IInv, Processes
  <2> QED BY <2>1, <2>2, PipedIs
<1>3. /\ p \in Processes /\ p.bridge = workers[w].bridge /\ p.life = workers[w].life
      /\ p.inbox = workers[w].inbox /\ p.job = workers[w].job
      /\ p.outbox = Piped(workers[w].outbox, x)
  BY <1>2 DEF Processes
<1>4. workers' = [workers EXCEPT ![w] = p] /\ UNCHANGED <<gui, call, proc>>
  BY <1>1, <1>2 DEF Stray, Processes
<1> HIDE DEF p
<1>5. Silent(workers[w]) => Silent(p)
  BY <1>2, <1>3, ScrapFollows DEF Silent
<1>6. ASSUME NEW r \in Requests, Serves(workers[w], r) PROVE Serves(p, r)
  BY <1>2, <1>3, <1>6, ScrapFollows DEF Serves
<1>7. Broken(workers[w]) => Broken(p)
  BY <1>2, <1>3, PipedIs DEF Broken
<1> QED BY <1>2, <1>3, <1>4, <1>5, <1>6, <1>7, WorkerChanges

\* What happens to a process that its bridge does not notice.
LEMMA FateInv ==
    ASSUME IInv, NEW w \in DOMAIN workers,
           Hang(w) \/ StartProgram(w) \/ ProgramEnds(w) \/ Die(w) \/ Reap(w)
    PROVE  IInv'
<1>1. workers[w] \in Processes
  BY WorkersAre DEF IInv
<1>2. CASE Hang(w) \/ StartProgram(w) \/ ProgramEnds(w)
  <2>1. PICK p \in Processes : Keeps(p, workers[w]) /\ workers' = [workers EXCEPT ![w] = p]
    <3>1. /\ [workers[w] EXCEPT !.hung = TRUE] \in Processes
          /\ [workers[w] EXCEPT !.child = TRUE] \in Processes
          /\ [workers[w] EXCEPT !.child = FALSE] \in Processes
          /\ Keeps([workers[w] EXCEPT !.hung = TRUE], workers[w])
          /\ Keeps([workers[w] EXCEPT !.child = TRUE], workers[w])
          /\ Keeps([workers[w] EXCEPT !.child = FALSE], workers[w])
      BY <1>1 DEF Processes, Keeps
    <3>2. \/ workers' = [workers EXCEPT ![w] = [workers[w] EXCEPT !.hung = TRUE]]
          \/ workers' = [workers EXCEPT ![w] = [workers[w] EXCEPT !.child = TRUE]]
          \/ workers' = [workers EXCEPT ![w] = [workers[w] EXCEPT !.child = FALSE]]
      BY <1>2 DEF Hang, StartProgram, ProgramEnds
    <3> QED BY <3>1, <3>2
  <2>2. UNCHANGED <<gui, call, proc>>
    BY <1>2 DEF Hang, StartProgram, ProgramEnds
  <2> QED BY <2>1, <2>2, WorkerChanges DEF Keeps, Silent, Serves, Broken
<1>3. CASE Die(w) \/ Reap(w)
  <2> DEFINE p == [workers[w] EXCEPT !.life = "dead", !.inbox = <<>>, !.job = NoRequest,
                                     !.hung = FALSE]
  <2>1. NoRequest \in Requests /\ <<>> \in Seq(Requests)
    BY EmptySeq DEF NoRequest, Request, Requests
  <2>2. /\ p \in Processes /\ p.bridge = workers[w].bridge /\ p.life = "dead"
        /\ p.inbox = <<>> /\ p.job = NoRequest /\ p.outbox = workers[w].outbox
    BY <1>1, <2>1 DEF Processes
  <2>3. workers' = [workers EXCEPT ![w] = p] /\ UNCHANGED <<gui, call, proc>>
    BY <1>1, <1>3 DEF Die, Reap, Ended, Processes
  <2> HIDE DEF p
  <2>4. ASSUME NEW r \in Requests, Serves(workers[w], r) PROVE Serves(p, r)
    BY <2>2, <2>4 DEF Serves
  <2> QED BY <2>2, <2>3, <2>4, WorkerChanges DEF Silent, Broken
<1> QED BY <1>2, <1>3

-----------------------------------------------------------------------------
\* The bridges.

\* A step of bridge b with its call and its processes leaves the others alone.
LEMMA OneBridge ==
    ASSUME IInv, NEW b \in Bridges, NEW c \in Calls, NEW q \in Nat,
           call' = [call EXCEPT ![b] = c], proc' = [proc EXCEPT ![b] = q],
           UNCHANGED gui, workers' \in Seq(Processes), DOMAIN workers \subseteq DOMAIN workers',
           \A w \in DOMAIN workers : workers[w].bridge # b => workers'[w] = workers[w],
           BridgeOK(b)', NoOrphans',
           call[b].at # "idle", c.request = call[b].request,
           closing = "closed" => c.at \notin {"check", "spawn", "write"} /\ q = None
    PROVE  IInv'
<1> USE DEF gui
<1>1. /\ call \in [Bridges -> Calls] /\ proc \in [Bridges -> Nat]
      /\ call' \in [Bridges -> Calls] /\ proc' \in [Bridges -> Nat]
      /\ call'[b] = c /\ proc'[b] = q
      /\ \A d \in Bridges : d # b => call'[d] = call[d] /\ proc'[d] = proc[d]
  BY DEF IInv, Types
<1>2. Types'
  BY <1>1 DEF IInv, Types
<1>3. ASSUME NEW d \in Bridges, d # b PROVE BridgeOK(d)'
  <2>1. \A w \in DOMAIN workers : workers[w].bridge = d =>
            w \in DOMAIN workers' /\ Keeps(workers'[w], workers[w])
    BY <1>3 DEF Keeps
  <2> QED BY <1>1, <1>3, <2>1, BridgeRests DEF IInv
<1>4. ClosingOK'
  BY <1>1 DEF IInv, ClosingOK, Bridges
<1>5. EventsOK'
  BY <1>1 DEF IInv, EventsOK, Bridges
<1>6. BookOK'
  BY <1>1 DEF IInv, BookOK, Bridges
<1> QED BY <1>2, <1>3, <1>4, <1>5, <1>6 DEF IInv

LEMMA CheckInv == ASSUME IInv, NEW b \in Bridges, Check(b) PROVE IInv'
<1>1. /\ BridgeOK(b) /\ call[b] \in Calls /\ call[b].at = "check" /\ proc[b] \in Nat
      /\ closing # "closed" /\ UNCHANGED <<gui, proc, workers>>
      /\ call \in [Bridges -> Calls] /\ proc \in [Bridges -> Nat] /\ workers \in Seq(Processes)
  BY DEF IInv, Types, ClosingOK, Check
<1> DEFINE c == IF proc[b] # None /\ workers[proc[b]].life # "dead"
                THEN [call[b] EXCEPT !.at = "write", !.on = proc[b]]
                ELSE [call[b] EXCEPT !.at = "spawn"]
<1>2. c \in Calls /\ call' = [call EXCEPT ![b] = c]
  BY <1>1 DEF Check, Goes, Calls
<1>3. /\ call'[b] = c /\ proc' = [proc EXCEPT ![b] = proc[b]]
  BY <1>1, <1>2
<1>4. BridgeOK(b)'
  BY <1>1, <1>3 DEF BridgeOK, Calls, Processes, gui
<1>5. NoOrphans'
  BY <1>1 DEF IInv, NoOrphans, gui
<1>6. c.at # "idle" /\ c.request = call[b].request
  BY <1>1 DEF Calls
<1> HIDE DEF c
<1> QED BY <1>1, <1>2, <1>3, <1>4, <1>5, <1>6, OneBridge

LEMMA SpawnInv == ASSUME IInv, NEW b \in Bridges, Spawn(b) PROVE IInv'
<1> DEFINE n == Len(workers) + 1
           c == [call[b] EXCEPT !.at = "write", !.on = n]
<1>1. /\ BridgeOK(b) /\ call[b] \in Calls /\ call[b].at = "spawn" /\ proc[b] \in Nat
      /\ closing # "closed" /\ UNCHANGED gui
      /\ call \in [Bridges -> Calls] /\ proc \in [Bridges -> Nat] /\ workers \in Seq(Processes)
  BY DEF IInv, Types, ClosingOK, Spawn
<1>2. /\ Process(b) \in Processes /\ Process(b).bridge = b /\ Silent(Process(b))
  BY EmptySeq DEF Process, Processes, NoRequest, Request, Requests, Silent, Foreign
<1>3. /\ workers' \in Seq(Processes) /\ Len(workers') = n /\ n \in Nat \ {0}
      /\ DOMAIN workers = 1 .. Len(workers) /\ DOMAIN workers' = 1 .. n
      /\ DOMAIN workers \subseteq DOMAIN workers'
      /\ workers'[n] = Process(b)
      /\ \A w \in DOMAIN workers : workers'[w] = workers[w]
      /\ \A w \in DOMAIN workers' : w = n \/ w \in DOMAIN workers
  <2>1. workers' = Append(workers, Process(b))
    BY DEF Spawn
  <2>2. workers' \in Seq(Processes) /\ Len(workers) \in Nat /\ Len(workers') = n
    BY <1>1, <1>2, <2>1, AppendProperties, LenProperties
  <2> QED BY <1>1, <1>2, <2>1, <2>2, AppendProperties, LenProperties
<1>4. /\ c \in Calls /\ c.at = "write" /\ c.on = n /\ c.request = call[b].request
      /\ call' = [call EXCEPT ![b] = c] /\ proc' = [proc EXCEPT ![b] = n]
  BY <1>1, <1>3 DEF Spawn, Calls
<1> HIDE DEF c, n
<1>5. call'[b] = c /\ proc'[b] = n /\ \A d \in Bridges \ {b} : proc'[d] = proc[d]
  BY <1>1, <1>4
<1>6. BridgeOK(b)'
  BY <1>2, <1>3, <1>4, <1>5 DEF BridgeOK
<1>7. NoOrphans'
  <2>1. ASSUME NEW w \in DOMAIN workers', workers'[w].life = "alive"
        PROVE  proc'[workers'[w].bridge] = w \/ Broken(workers'[w])
    <3>1. CASE w = n
      BY <3>1, <1>2, <1>3, <1>5
    <3>2. CASE w \in DOMAIN workers /\ ~ Broken(workers[w])
      <4>1. workers'[w] = workers[w] /\ proc[workers[w].bridge] = w /\ workers[w].bridge \in Bridges
        BY <1>3, <2>1, <3>2, WorkersAre DEF IInv, NoOrphans, Processes, Broken
      <4>2. workers[w].bridge # b
        BY <1>1, <1>3, <2>1, <3>2, <4>1 DEF BridgeOK, None
      <4> QED BY <1>5, <4>1, <4>2
    <3> QED BY <1>3, <3>1, <3>2
  <2> QED BY <1>1, <2>1 DEF NoOrphans, gui, Broken
<1>8. n \in Nat /\ DOMAIN workers \subseteq DOMAIN workers' /\ c.at \notin {"idle"}
  BY <1>3, <1>4
<1>9. \A w \in DOMAIN workers : workers[w].bridge # b => workers'[w] = workers[w]
  BY <1>3
<1> QED
  BY <1>1, <1>3, <1>4, <1>6, <1>7, <1>8, <1>9, OneBridge

LEMMA WriteInv == ASSUME IInv, NEW b \in Bridges, Write(b) PROVE IInv'
<1> DEFINE on == call[b].on
<1>1. /\ BridgeOK(b) /\ call[b] \in Calls /\ call[b].at = "write" /\ proc[b] \in Nat
      /\ closing # "closed" /\ UNCHANGED <<gui, proc>> /\ call[b].request \in Requests
      /\ call \in [Bridges -> Calls] /\ proc \in [Bridges -> Nat] /\ workers \in Seq(Processes)
  BY DEF IInv, Types, ClosingOK, Write, Calls
<1>2. /\ on \in DOMAIN workers /\ proc[b] = on /\ workers[on].bridge = b
      /\ workers[on] \in Processes /\ on \in Nat \ {0} /\ Silent(workers[on])
  BY <1>1, WorkersAre DEF BridgeOK, IInv, None
<1>3. proc' = [proc EXCEPT ![b] = proc[b]]
  BY <1>1
<1>4. CASE workers' = [workers EXCEPT ![on].inbox = Append(@, call[b].request)] /\ Goes(b, "read")
  <2> DEFINE p == [workers[on] EXCEPT !.inbox = <<call[b].request>>]
             c == [call[b] EXCEPT !.at = "read"]
  <2>1. Append(<<>>, call[b].request) = <<call[b].request>>
    OBVIOUS
  <2>2. /\ p \in Processes /\ p.bridge = b /\ p.life = workers[on].life
        /\ Serves(p, call[b].request) /\ workers' = [workers EXCEPT ![on] = p]
    <3>1. <<call[b].request>> \in Seq(Requests)
      BY <1>1
    <3>2. workers[on].inbox = <<>> /\ workers[on].job = NoRequest /\ Foreign(workers[on].outbox)
      BY <1>2 DEF Silent
    <3>3. /\ p \in Processes /\ p.bridge = b /\ p.life = workers[on].life
          /\ p.inbox = <<call[b].request>> /\ p.job = NoRequest /\ p.outbox = workers[on].outbox
      BY <1>2, <3>1, <3>2 DEF Processes
    <3>4. workers' = [workers EXCEPT ![on] = p]
      BY <1>1, <1>2, <1>4, <2>1, <3>2 DEF Processes
    <3> QED BY <3>2, <3>3, <3>4 DEF Serves
  <2>3. c \in Calls /\ c.at = "read" /\ c.on = on /\ c.request = call[b].request
        /\ call' = [call EXCEPT ![b] = c] /\ call'[b] = c
    BY <1>1, <1>4 DEF Goes, Calls
  <2> HIDE DEF p, c
  <2>4. /\ workers' \in Seq(Processes) /\ DOMAIN workers' = DOMAIN workers /\ workers'[on] = p
        /\ \A w \in DOMAIN workers : w # on => workers'[w] = workers[w]
    BY <1>2, <2>2, OneChanges DEF IInv
  <2> HIDE DEF on
  <2>5. BridgeOK(b)'
    BY <1>1, <1>2, <1>3, <2>2, <2>3, <2>4 DEF BridgeOK
  <2>6. NoOrphans'
    BY <1>1, <1>2, <2>2, <2>4 DEF IInv, NoOrphans, gui
  <2>7. \A w \in DOMAIN workers : workers[w].bridge # b => workers'[w] = workers[w]
    BY <1>2, <2>4
  <2> QED BY <1>1, <1>3, <2>3, <2>4, <2>5, <2>6, <2>7, OneBridge
<1>5. CASE workers[on].life # "alive" /\ Goes(b, "failed") /\ UNCHANGED workers
  <2> DEFINE c == [call[b] EXCEPT !.at = "failed"]
  <2>1. c \in Calls /\ c.at = "failed" /\ c.on = on /\ c.request = call[b].request
        /\ call' = [call EXCEPT ![b] = c] /\ call'[b] = c
    BY <1>1, <1>5 DEF Goes, Calls
  <2> HIDE DEF c, on
  <2>2. BridgeOK(b)'
    BY <1>1, <1>2, <1>3, <1>5, <2>1 DEF BridgeOK
  <2>3. NoOrphans'
    BY <1>1, <1>5 DEF IInv, NoOrphans, gui
  <2> QED BY <1>1, <1>3, <1>5, <2>1, <2>2, <2>3, OneBridge
<1>6. CASE workers[on].life = "dead" /\ Goes(b, "read") /\ UNCHANGED workers
  <2> DEFINE c == [call[b] EXCEPT !.at = "read"]
  <2>1. c \in Calls /\ c.at = "read" /\ c.on = on /\ c.request = call[b].request
        /\ call' = [call EXCEPT ![b] = c] /\ call'[b] = c
    BY <1>1, <1>6 DEF Goes, Calls
  <2>2. Serves(workers[on], call[b].request)
    BY <1>2 DEF Silent, Serves
  <2> HIDE DEF c, on
  <2>3. BridgeOK(b)'
    BY <1>1, <1>2, <1>3, <1>6, <2>1, <2>2 DEF BridgeOK
  <2>4. NoOrphans'
    BY <1>1, <1>6 DEF IInv, NoOrphans, gui
  <2> QED BY <1>1, <1>3, <1>6, <2>1, <2>3, <2>4, OneBridge
<1> QED BY <1>4, <1>5, <1>6 DEF Write

LEMMA ClosedBridge ==
    ASSUME IInv, NEW b \in Bridges, closing = "closed"
    PROVE  proc[b] = None /\ call[b].at \in {"idle", "read", "failed", "answer"}
BY DEF IInv, ClosingOK, Types, Calls

LEMMA ReadInv == ASSUME IInv, NEW b \in Bridges, Read(b) PROVE IInv'
<1> DEFINE on == call[b].on
           head == Head(workers[on].outbox)
           p == [workers[on] EXCEPT !.outbox = Tail(@)]
           c == [call[b] EXCEPT !.at = "answer", !.answer = head]
<1>1. /\ BridgeOK(b) /\ call[b] \in Calls /\ call[b].at = "read" /\ proc[b] \in Nat
      /\ UNCHANGED <<gui, proc>> /\ call[b].request \in Requests
      /\ call \in [Bridges -> Calls] /\ proc \in [Bridges -> Nat] /\ workers \in Seq(Processes)
  BY DEF IInv, Types, Read, Calls
<1>2. /\ on \in DOMAIN workers /\ workers[on].bridge = b /\ workers[on] \in Processes
      /\ on \in Nat \ {0} /\ Serves(workers[on], call[b].request)
      /\ proc[b] = on \/ closing = "closed"
  BY <1>1, WorkersAre DEF BridgeOK, IInv
<1>3. /\ Replies(workers[on].outbox, call[b].request)
      /\ workers[on].inbox = <<>> /\ workers[on].job = NoRequest
  <2>1. workers[on].outbox # <<>> /\ Head(workers[on].outbox) \notin Scraps
    BY DEF Read
  <2>2. ~ Foreign(workers[on].outbox)
    BY <2>1 DEF Foreign
  <2> QED BY <1>2, <2>2 DEF Serves
<1>4. /\ head \in Answers /\ Meets(head, call[b].request)
      /\ Tail(workers[on].outbox) \in Seq(Answers) /\ Foreign(Tail(workers[on].outbox))
  <2>1. PICK a \in Answers :
            /\ Meets(a, call[b].request)
            /\ workers[on].outbox = <<a>> \/ \E x \in Scraps : workers[on].outbox = <<a, x>>
    BY <1>3 DEF Replies
  <2>2. Scraps \subseteq Answers
    BY DEF Scraps, Scrap, Answer, Answers, Request
  <2>3. CASE workers[on].outbox = <<a>>
    BY <2>1, <2>3 DEF Foreign
  <2>4. CASE \E x \in Scraps : workers[on].outbox = <<a, x>>
    BY <2>1, <2>2, <2>4 DEF Foreign
  <2> QED BY <2>1, <2>3, <2>4
<1>5. /\ p \in Processes /\ p.bridge = b /\ p.life = workers[on].life /\ Silent(p)
      /\ workers' = [workers EXCEPT ![on] = p]
  BY <1>2, <1>3, <1>4 DEF Read, Processes, Silent
<1>6. /\ c \in Calls /\ c.at = "answer" /\ c.request = call[b].request
      /\ Meets(c.answer, c.request) /\ call' = [call EXCEPT ![b] = c] /\ call'[b] = c
  BY <1>1, <1>3, <1>4 DEF Read, Calls
<1>7. proc' = [proc EXCEPT ![b] = proc[b]]
  BY <1>1
<1> HIDE DEF p, c, head
<1>8. /\ workers' \in Seq(Processes) /\ DOMAIN workers' = DOMAIN workers /\ workers'[on] = p
      /\ \A w \in DOMAIN workers : w # on => workers'[w] = workers[w]
  BY <1>2, <1>5, OneChanges DEF IInv
<1> HIDE DEF on
<1>9. BridgeOK(b)'
  BY <1>1, <1>2, <1>5, <1>6, <1>7, <1>8, ClosedBridge DEF BridgeOK, gui
<1>10. NoOrphans'
  BY <1>1, <1>2, <1>5, <1>8 DEF IInv, NoOrphans, gui, Read, on
<1>11. \A w \in DOMAIN workers : workers[w].bridge # b => workers'[w] = workers[w]
  BY <1>2, <1>8
<1> QED BY <1>1, <1>6, <1>7, <1>8, <1>9, <1>10, <1>11, ClosedBridge, OneBridge

LEMMA ReadNothingInv == ASSUME IInv, NEW b \in Bridges, ReadNothing(b) PROVE IInv'
<1> DEFINE c == [call[b] EXCEPT !.at = "failed"]
<1>1. /\ BridgeOK(b) /\ call[b] \in Calls /\ call[b].at = "read" /\ proc[b] \in Nat
      /\ workers[call[b].on].life # "alive" \/ Broken(workers[call[b].on])
      /\ UNCHANGED <<gui, proc, workers>>
      /\ call \in [Bridges -> Calls] /\ proc \in [Bridges -> Nat] /\ workers \in Seq(Processes)
  BY DEF IInv, Types, ReadNothing, Broken, Scraps
<1>2. /\ c \in Calls /\ c.at = "failed" /\ c.on = call[b].on /\ c.request = call[b].request
      /\ call' = [call EXCEPT ![b] = c] /\ call'[b] = c
  BY <1>1 DEF ReadNothing, Goes, Calls
<1> HIDE DEF c
<1>3. proc' = [proc EXCEPT ![b] = proc[b]]
  BY <1>1
<1>4. BridgeOK(b)'
  BY <1>1, <1>2, <1>3, ClosedBridge DEF BridgeOK, gui
<1>5. NoOrphans'
  BY <1>1 DEF IInv, NoOrphans, gui
<1> QED BY <1>1, <1>2, <1>3, <1>4, <1>5, ClosedBridge, OneBridge

LEMMA FailInv == ASSUME IInv, NEW b \in Bridges, Fail(b) PROVE IInv'
<1> DEFINE a == Answer(call[b].request, call[b].request.envelope, "crashed")
           c == [call[b] EXCEPT !.at = "answer", !.answer = a]
<1>1. /\ BridgeOK(b) /\ call[b] \in Calls /\ call[b].at = "failed" /\ proc[b] \in Nat
      /\ proc' = [proc EXCEPT ![b] = None] /\ UNCHANGED <<gui, workers>>
      /\ call[b].request \in Requests /\ None \in Nat
      /\ call \in [Bridges -> Calls] /\ proc \in [Bridges -> Nat] /\ workers \in Seq(Processes)
  BY DEF IInv, Types, Fail, Calls, None
<1>2. a \in Answers /\ Meets(a, call[b].request)
  BY <1>1, AnswersAre, SMTT(30) DEF Requests, Meets
<1> HIDE DEF a
<1>3. /\ c \in Calls /\ c.at = "answer" /\ c.request = call[b].request
      /\ Meets(c.answer, c.request) /\ call' = [call EXCEPT ![b] = c] /\ call'[b] = c
  BY <1>1, <1>2 DEF Fail, Calls, a
<1> HIDE DEF c
<1>4. BridgeOK(b)'
  BY <1>1, <1>3 DEF BridgeOK
<1>5. NoOrphans'
  <2>1. proc[b] # None => workers[proc[b]].life # "alive" \/ Broken(workers[proc[b]])
    BY <1>1 DEF BridgeOK
  <2>2. ASSUME NEW w \in DOMAIN workers, workers[w].life = "alive", ~ Broken(workers[w])
        PROVE  proc'[workers[w].bridge] = w
    <3>1. workers[w].bridge \in Bridges /\ proc[workers[w].bridge] = w /\ w # None
      BY <2>2, WorkersAre DEF IInv, NoOrphans, Processes, None, Broken
    <3>2. workers[w].bridge # b
      BY <2>1, <2>2, <3>1
    <3> QED BY <1>1, <3>1, <3>2
  <2> QED BY <1>1, <2>2 DEF IInv, NoOrphans, gui, Broken
<1> QED BY <1>1, <1>3, <1>4, <1>5, OneBridge

-----------------------------------------------------------------------------
\* The window and the console's thread.

\* Steps that change the workbook and the events, begin a call or end one.
LEMMA WindowRests ==
    ASSUME IInv, Types', EventsOK', BookOK', UNCHANGED <<workers, proc, closing>>,
           \A b \in Bridges : \/ call'[b] = call[b]
                              \/ call'[b].at = "idle" /\ call[b].at = "answer"
                              \/ call'[b].at = "check" /\ closing = "no" /\ call[b].at = "idle"
    PROVE  IInv'
<1>1. ASSUME NEW b \in Bridges PROVE BridgeOK(b)'
  BY DEF IInv, BridgeOK
<1>2. ClosingOK'
  BY DEF IInv, ClosingOK, Bridges
<1>3. NoOrphans'
  BY DEF IInv, NoOrphans
<1> QED BY <1>1, <1>2, <1>3 DEF IInv

\* A new command for bridge b.
LEMMA StartsCall ==
    ASSUME IInv, NEW b \in Bridges, Start(b)
    PROVE  /\ call' \in [Bridges -> Calls] /\ call'[b].at = "check" /\ Fresh \in Nat
           /\ call'[b].request.envelope = book
           /\ \A d \in Bridges : d # b => call'[d] = call[d]
<1>1. /\ call \in [Bridges -> Calls] /\ book \in SUBSET Nat /\ Fresh \in Nat
      /\ NoRequest \in Requests /\ Answer(NoRequest, {}, "none") \in Answers
  BY DEF IInv, Types, Fresh, NoRequest, Request, Requests, Answer, Answers
<1>2. Request(Fresh, book) \in Requests
  BY <1>1 DEF Request, Requests
<1> HIDE DEF Fresh
<1> DEFINE c == [Idle EXCEPT !.at = "check", !.request = Request(Fresh, book)]
<1>3. c \in Calls /\ c.at = "check" /\ c.request.envelope = book
  BY <1>1, <1>2 DEF Idle, Calls, None, Request
<1>4. call' = [call EXCEPT ![b] = c]
  BY DEF Start
<1> HIDE DEF c
<1> QED BY <1>1, <1>3, <1>4

\* A call that is over.
LEMMA EndsCall ==
    ASSUME IInv, NEW b \in Bridges, call' = [call EXCEPT ![b] = Idle]
    PROVE  /\ call' \in [Bridges -> Calls] /\ call'[b].at = "idle"
           /\ \A d \in Bridges : d # b => call'[d] = call[d]
<1>1. call \in [Bridges -> Calls]
  BY DEF IInv, Types
<1>2. Idle \in Calls /\ Idle.at = "idle"
  BY DEF Idle, Calls, None, NoRequest, Request, Requests, Answer, Answers
<1> HIDE DEF Idle
<1> QED BY <1>1, <1>2

LEMMA EditInv == ASSUME IInv, Edit PROVE IInv'
<1>1. Types'
  BY DEF IInv, Types, Edit, Fresh
<1>2. EventsOK'
  BY DEF IInv, EventsOK, Edit
<1>3. BookOK'
  BY DEF IInv, EventsOK, BookOK, Edit, Responsive, Finished
<1> QED BY <1>1, <1>2, <1>3, WindowRests DEF Edit

LEMMA RunConsoleInv == ASSUME IInv, RunConsole PROVE IInv'
<1>1. "console" \in Bridges
  BY DEF Bridges
<1>2. Types'
  BY <1>1, StartsCall DEF IInv, Types, RunConsole
<1>3. EventsOK'
  BY <1>1, StartsCall DEF IInv, EventsOK, RunConsole
<1>4. closing = "no" /\ call["console"].at = "idle"
  BY DEF IInv, EventsOK, RunConsole, Responsive
<1>5. BookOK'
  <2>1. events = <<>> /\ call["macro"].at = "idle"
    BY DEF IInv, EventsOK, RunConsole, Responsive
  <2>2. call'["console"].request.envelope = book /\ call'["macro"] = call["macro"]
    BY <1>1, StartsCall DEF RunConsole, Bridges
  <2> QED BY <2>1, <2>2 DEF BookOK, RunConsole
<1> QED BY <1>1, <1>2, <1>3, <1>4, <1>5, StartsCall, WindowRests DEF RunConsole

LEMMA RunMacroInv == ASSUME IInv, RunMacro PROVE IInv'
<1>1. "macro" \in Bridges /\ "console" \in Bridges
  BY DEF Bridges
<1>2. Types'
  BY <1>1, StartsCall DEF IInv, Types, RunMacro
<1>3. EventsOK'
  BY <1>1, StartsCall DEF IInv, EventsOK, RunMacro
<1>4. closing = "no" /\ call["macro"].at = "idle"
  BY DEF RunMacro, Responsive
<1>5. BookOK'
  <2>1. call'["macro"].request.envelope = book /\ call'["console"] = call["console"]
    BY <1>1, StartsCall DEF RunMacro
  <2> QED BY <2>1 DEF IInv, BookOK, RunMacro
<1> QED BY <1>1, <1>2, <1>3, <1>4, <1>5, StartsCall, WindowRests DEF RunMacro

\* A macro's answer holds the workbook that the window still has.
LEMMA MacroAnswer ==
    ASSUME IInv, MacroReturns
    PROVE  /\ book \subseteq call["macro"].answer.envelope
           /\ call["macro"].answer.envelope \subseteq book \cup {call["macro"].answer.id}
BY DEF IInv, BridgeOK, BookOK, Meets, MacroReturns, Bridges

LEMMA MacroReturnsInv == ASSUME IInv, MacroReturns PROVE IInv'
<1>1. "macro" \in Bridges /\ "console" \in Bridges
  BY DEF Bridges
<1>2. book' \in SUBSET Nat
  BY <1>1 DEF IInv, Types, Calls, Answers, MacroReturns
<1>3. Types'
  BY <1>1, <1>2, EndsCall DEF IInv, Types, MacroReturns
<1>4. EventsOK'
  BY <1>1, EndsCall DEF IInv, EventsOK, MacroReturns
<1>5. BookOK'
  <2>1. call'["macro"].at = "idle" /\ call'["console"] = call["console"]
    BY <1>1, EndsCall DEF MacroReturns
  <2>2. book' \subseteq book \cup {call["macro"].answer.id} /\ UNCHANGED events
    BY MacroAnswer DEF MacroReturns
  <2>3. running => book' \subseteq book \cup overlap' /\ overlap \subseteq overlap'
    BY <2>2 DEF MacroReturns
  <2>4. call["console"].at # "idle" \/ events # <<>> => running
    BY DEF IInv, EventsOK
  <2>5. ASSUME call["console"].at # "idle"
        PROVE  book' \subseteq call["console"].request.envelope \cup overlap'
    BY <2>3, <2>4, <2>5 DEF IInv, BookOK
  <2>6. ASSUME NEW a \in Answers, events = <<a, Finished>>, a.outcome # "crashed"
        PROVE  book' \subseteq a.envelope \cup overlap'
    <3>1. events # <<>>
      BY <2>6
    <3> QED BY <2>3, <2>4, <2>6, <3>1 DEF IInv, BookOK
  <2> QED BY <2>1, <2>2, <2>5, <2>6 DEF BookOK
<1> QED BY <1>1, <1>3, <1>4, <1>5, EndsCall, WindowRests DEF MacroReturns

\* What is at hand of the console's events.
LEMMA EventAtHand ==
    ASSUME IInv, events # <<>>
    PROVE  /\ Head(events).outcome # "finished" =>
                  Head(events) \in Answers /\ Tail(events) = <<Finished>>
           /\ Head(events).outcome = "finished" => Tail(events) = <<>>
<1>1. Finished.outcome = "finished"
  BY DEF Finished, Answer
<1>2. ASSUME NEW a \in Answers
      PROVE  /\ a.outcome # "finished"
             /\ Head(<<a, Finished>>) = a /\ Tail(<<a, Finished>>) = <<Finished>>
  BY DEF Answers
<1>3. Head(<<Finished>>) = Finished /\ Tail(<<Finished>>) = <<>>
  OBVIOUS
<1> QED BY <1>1, <1>2, <1>3 DEF IInv, EventsOK

LEMMA OnResultInv == ASSUME IInv, OnResult PROVE IInv'
<1>1. Head(events) \in Answers /\ events' = <<Finished>> /\ events # <<>>
  BY EventAtHand DEF OnResult
<1>2. book' \in SUBSET Nat
  BY <1>1 DEF OnResult, IInv, Types, Answers
<1>3. Types'
  BY <1>2 DEF IInv, Types, OnResult
<1>4. EventsOK'
  BY <1>1 DEF IInv, EventsOK, OnResult
<1>5. BookOK'
  <2>1. call["console"].at = "idle" /\ call["macro"].at = "idle"
    BY <1>1 DEF IInv, EventsOK, OnResult, Responsive
  <2>2. ASSUME NEW a \in Answers PROVE events' # <<a, Finished>>
    BY <1>1
  <2> QED BY <2>1, <2>2 DEF BookOK, OnResult
<1> QED BY <1>3, <1>4, <1>5, WindowRests DEF OnResult

LEMMA TeardownInv == ASSUME IInv, Teardown PROVE IInv'
<1>1. events' = <<>> /\ events # <<>>
  BY EventAtHand DEF Teardown
<1>2. Types'
  BY DEF IInv, Types, Teardown
<1>3. EventsOK'
  BY <1>1 DEF IInv, EventsOK, Teardown
<1>4. BookOK'
  BY <1>1 DEF IInv, BookOK, Teardown
<1> QED BY <1>2, <1>3, <1>4, WindowRests DEF Teardown

LEMMA EmitInv == ASSUME IInv, Emit PROVE IInv'
<1> DEFINE a == call["console"].answer
<1>1. "console" \in Bridges /\ a \in Answers
  BY DEF IInv, Types, Calls, Bridges
<1>2. events = <<>> /\ running
  BY DEF IInv, EventsOK, Emit
<1>3. events' = <<>> \/ events' = <<a, Finished>>
  <2>1. <<>> \o <<a, Finished>> = <<a, Finished>>
    OBVIOUS
  <2> QED BY <1>2, <2>1 DEF Emit, Finished
<1>4. Types'
  BY <1>1, EndsCall DEF IInv, Types, Emit
<1>5. EventsOK'
  BY <1>1, <1>2, <1>3, EndsCall DEF EventsOK, Emit
<1>6. BookOK'
  <2>1. call'["console"].at = "idle" /\ call'["macro"] = call["macro"]
    BY <1>1, EndsCall DEF Emit, Bridges
  <2>2. book \subseteq a.envelope \cup overlap
    BY <1>1 DEF IInv, BridgeOK, BookOK, Meets, Emit
  <2>3. ASSUME NEW d \in Answers, events' = <<d, Finished>> PROVE d = a
    BY <1>3, <2>3
  <2> QED BY <2>1, <2>2, <2>3 DEF IInv, BookOK, Emit
<1> QED BY <1>1, <1>4, <1>5, <1>6, EndsCall, WindowRests DEF Emit

-----------------------------------------------------------------------------
\* Processes are killed.

\* Any processes may be, if those that are left alive are still their bridges'.
LEMMA KillInv ==
    ASSUME IInv, UNCHANGED <<book, made, overlap, running, events, call>>,
           workers' \in Seq(Processes), DOMAIN workers' = DOMAIN workers,
           \A w \in DOMAIN workers : Keeps(workers'[w], workers[w]),
           closing' \in {"no", "waiting", "closed"}, ClosingOK',
           closing = "closed" => closing' = "closed",
           \/ proc' = proc
           \/ closing' = "closed" /\ proc' = [b \in Bridges |-> None]
              /\ \A b \in Bridges : call[b].at \in {"idle", "read", "failed"},
           NoOrphans'
    PROVE  IInv'
<1>1. Types'
  BY DEF IInv, Types, None
<1>2. EventsOK' /\ BookOK'
  BY DEF IInv, EventsOK, BookOK
<1>3. ASSUME NEW b \in Bridges PROVE BridgeOK(b)'
  <2>1. CASE proc' = proc
    BY <2>1, BridgeRests DEF IInv
  <2>2. CASE /\ closing' = "closed" /\ proc' = [d \in Bridges |-> None]
             /\ call[b].at \in {"idle", "read", "failed"}
    BY <2>2 DEF IInv, BridgeOK, Keeps, Serves
  <2> QED BY <2>1, <2>2
<1> QED BY <1>1, <1>2, <1>3 DEF IInv

\* Killing one process.
LEMMA KilledIs ==
    ASSUME IInv, NEW w \in DOMAIN workers
    PROVE  /\ Killed(w) \in Seq(Processes) /\ DOMAIN Killed(w) = DOMAIN workers
           /\ \A v \in DOMAIN workers : Keeps(Killed(w)[v], workers[v])
<1> DEFINE p == [workers[w] EXCEPT !.life = IF @ = "alive" THEN "killed" ELSE @]
<1>1. workers \in Seq(Processes) /\ workers[w] \in Processes
  BY WorkersAre DEF IInv, Types
<1>2. p \in Processes /\ Keeps(p, workers[w]) /\ Killed(w) = [workers EXCEPT ![w] = p]
  BY <1>1 DEF Killed, Processes, Keeps
<1> HIDE DEF p
<1> QED BY <1>1, <1>2, WorkersAre DEF Keeps, IInv, Types

LEMMA InterruptInv == ASSUME IInv, Interrupt PROVE IInv'
<1>1. proc["console"] \in DOMAIN workers
  BY DEF Interrupt, IInv, BridgeOK, Bridges
<1>2. /\ workers' \in Seq(Processes) /\ DOMAIN workers' = DOMAIN workers
      /\ \A v \in DOMAIN workers : Keeps(workers'[v], workers[v])
  BY <1>1, KilledIs DEF Interrupt
<1>3. NoOrphans'
  BY <1>2 DEF IInv, NoOrphans, Keeps, Interrupt
<1>4. ClosingOK' /\ closing \in {"no", "waiting", "closed"}
  BY DEF IInv, Types, ClosingOK, Interrupt
<1> QED BY <1>2, <1>3, <1>4, KillInv DEF Interrupt

LEMMA CloseInv == ASSUME IInv, Close PROVE IInv'
<1>1. proc["console"] # None => proc["console"] \in DOMAIN workers
  BY DEF IInv, BridgeOK, Bridges
<1>2. /\ workers' \in Seq(Processes) /\ DOMAIN workers' = DOMAIN workers
      /\ \A v \in DOMAIN workers : Keeps(workers'[v], workers[v])
  <2>1. CASE proc["console"] = None
    BY <2>1 DEF Close, IInv, Types, Keeps
  <2>2. CASE proc["console"] # None
    <3>1. workers' = Killed(proc["console"]) /\ proc["console"] \in DOMAIN workers
      BY <2>2, <1>1 DEF Close
    <3> QED BY <3>1, KilledIs
  <2> QED BY <2>1, <2>2
<1>3. closing = "no" /\ closing' = "waiting" /\ call["macro"].at = "idle"
  BY DEF Close, Responsive
<1>4. NoOrphans'
  BY <1>2, <1>3 DEF IInv, NoOrphans, Keeps, Close
<1>5. ClosingOK'
  BY <1>3 DEF ClosingOK, Close
<1> QED BY <1>2, <1>3, <1>4, <1>5, KillInv DEF Close

LEMMA CloseBridgesInv == ASSUME IInv, CloseBridges PROVE IInv'
<1>1. /\ workers \in Seq(Processes) /\ DOMAIN workers = 1 .. Len(workers) /\ Len(workers) \in Nat
      /\ \A w \in DOMAIN workers : workers[w] \in Processes
  BY WorkersAre DEF IInv, Types
<1>2. ASSUME NEW w \in DOMAIN workers
      PROVE  /\ workers'[w] \in Processes /\ Keeps(workers'[w], workers[w])
             /\ workers'[w].life # "alive" \/ Broken(workers'[w])
  <2>1. workers[w] \in Processes /\ [workers[w] EXCEPT !.life = "killed"] \in Processes
    BY <1>1 DEF Processes
  <2>2. workers[w].life = "alive" => (\E b \in Bridges : proc[b] = w) \/ Broken(workers[w])
    BY <2>1 DEF IInv, NoOrphans, Processes, Broken
  <2>3. workers'[w] = IF \E b \in Bridges : proc[b] = w /\ workers[w].life = "alive"
                      THEN [workers[w] EXCEPT !.life = "killed"] ELSE workers[w]
    BY DEF CloseBridges
  <2> QED BY <2>1, <2>2, <2>3 DEF Keeps, Processes, Broken
<1>3. DOMAIN workers' = DOMAIN workers
  BY DEF CloseBridges
<1>4. workers' \in Seq(Processes)
  <2>1. workers' = [w \in 1 .. Len(workers) |-> workers'[w]]
    BY <1>1 DEF CloseBridges
  <2> QED BY <1>1, <1>2, <2>1
<1>5. /\ closing = "waiting" /\ closing' = "closed" /\ call["macro"].at = "idle"
      /\ \A b \in Bridges : call[b].at \in {"idle", "read", "failed"}
  BY DEF CloseBridges, IInv, ClosingOK, Bridges
<1>6. NoOrphans'
  BY <1>2, <1>3 DEF NoOrphans, Broken
<1>7. ClosingOK'
  BY <1>5 DEF ClosingOK, CloseBridges
<1> QED BY <1>2, <1>3, <1>4, <1>5, <1>6, <1>7, KillInv DEF CloseBridges

-----------------------------------------------------------------------------
LEMMA StepInv == IInv /\ [Next]_vars => IInv'
<1> SUFFICES ASSUME IInv, [Next]_vars PROVE IInv'
  OBVIOUS
<1>1. CASE UNCHANGED vars
  BY <1>1 DEF vars, IInv, Types, EventsOK, BookOK, BridgeOK, ClosingOK, NoOrphans
<1>2. CASE User \/ Window \/ Emit
  BY <1>2, EditInv, RunConsoleInv, RunMacroInv, InterruptInv, CloseInv, MacroReturnsInv,
     OnResultInv, TeardownInv, CloseBridgesInv, EmitInv DEF User, Window
<1>3. CASE \E b \in Bridges : Bridge(b)
  BY <1>3, CheckInv, SpawnInv, WriteInv, ReadInv, ReadNothingInv, FailInv DEF Bridge
<1>4. CASE \E w \in DOMAIN workers : Worker(w) \/ Others(w)
  BY <1>4, ReceiveInv, FinishInv, StrayInv, FateInv DEF Worker, Others
<1> QED BY <1>1, <1>2, <1>3, <1>4 DEF Next

\* An answer is the answer to the command that gets it, whatever the killed
\* processes of earlier commands left behind.
THEOREM OwnAnswers == Spec => []AnswersMatch
<1>1. IInv => AnswersMatch
  BY DEF IInv, BridgeOK, Meets, AnswersMatch
<1> QED BY InitInv, StepInv, <1>1, PTL DEF Spec

\* A process that no bridge could stop any more lives on only where its bridge
\* met output of another program in place of an answer.
THEOREM NoneLeftBehind == Spec => []NoOrphans
<1>1. IInv => NoOrphans
  BY DEF IInv
<1> QED BY InitInv, StepInv, <1>1, PTL DEF Spec

\* What a command's answer overwrites has been changed while that command was
\* running: the answer holds everything that its request took along, and a
\* macro's answer everything that the waiting window has.
THEOREM OverlapAlone == Spec => LossesOverlap
<1>1. ASSUME IInv, [Next]_vars PROVE [book \ book' \subseteq overlap]_vars
  <2>1. CASE Edit \/ MacroReturns
    BY <1>1, <2>1, MacroAnswer DEF Edit, MacroReturns
  <2>2. CASE OnResult
    <3>1. PICK a \in Answers : events = <<a, Finished>>
      BY <1>1, <2>2, EventAtHand DEF IInv, EventsOK, OnResult, Finished, Answer
    <3>2. Head(events) = a
      BY <3>1
    <3> QED BY <1>1, <2>2, <3>1, <3>2 DEF IInv, BookOK, OnResult
  <2>3. CASE RunConsole \/ RunMacro \/ Interrupt \/ Close \/ Teardown \/ CloseBridges \/ Emit
    BY <2>3, SMTT(30) DEF RunConsole, RunMacro, Interrupt, Close, Teardown, CloseBridges, Emit
  <2>4. CASE \E b \in Bridges : Bridge(b)
    BY <2>4 DEF Bridge, Check, Spawn, Write, Read, ReadNothing, Fail, gui
  <2>5. CASE \E w \in DOMAIN workers : Worker(w) \/ Others(w)
    BY <2>5 DEF Worker, Others, Receive, Finish, Stray, StartProgram, ProgramEnds,
               Hang, Die, Reap, gui
  <2>6. CASE UNCHANGED vars
    BY <2>6
  <2> QED BY <1>1, <2>1, <2>2, <2>3, <2>4, <2>5, <2>6 DEF Next, User, Window
<1>2. IInv /\ [Next]_vars => [book \ book' \subseteq overlap]_vars
  BY <1>1
<1> QED BY InitInv, StepInv, <1>2, PTL DEF Spec, LossesOverlap
=============================================================================
