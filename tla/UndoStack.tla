------------------------------ MODULE UndoStack ------------------------------
(***************************************************************************)
(* abax/core/undo.py: two stacks of labelled snapshots, with a burst of    *)
(* edits under one key coalescing into one step.  The caller (Document,    *)
(* the GUI) hands over its current state; here it is the variable live,    *)
(* and the caller does what the module's docstring asks of it: checkpoint  *)
(* before every mutation.  Wall-clock time enters the code only through    *)
(* now - _last_time < coalesce_window, so the model keeps that difference, *)
(* saturated at Window.                                                    *)
(***************************************************************************)
EXTENDS Integers, Sequences

CONSTANTS
    States,     \* document states, opaque
    Labels,     \* labels of checkpoints
    Keys,       \* coalescing keys
    NoKey,      \* coalesce_key=None
    MaxDepth,   \* max_depth
    Window      \* coalesce_window, in ticks

ASSUME StackAssumption == /\ MaxDepth \in Nat \ {0}
                          /\ Window \in Nat \ {0}
                          /\ NoKey \notin Keys

VARIABLES
    undo,       \* _undo, the top last
    redo,       \* _redo, the top last
    lastKey,    \* _last_key
    elapsed,    \* now - _last_time, at most Window
    live        \* the caller's current state

stack == <<undo, redo, lastKey, elapsed>>
vars  == <<undo, redo, lastKey, elapsed, live>>

Entry == [state : States, label : Labels]

TypeOK == /\ undo \in Seq(Entry)
          /\ redo \in Seq(Entry)
          /\ lastKey \in Keys \cup {NoKey}
          /\ elapsed \in 0 .. Window
          /\ live \in States

Init == /\ undo = <<>>
        /\ redo = <<>>
        /\ lastKey = NoKey
        /\ elapsed = Window
        /\ live \in States

-----------------------------------------------------------------------------
Top(s) == s[Len(s)]
Pop(s) == SubSeq(s, 1, Len(s) - 1)

\* Mutant of Push: the limit is off by one.
PushOneMore(s, e) == IF Len(s) <= MaxDepth THEN Append(s, e) ELSE Append(Tail(s), e)

\* The list after an append, the oldest entry dropped beyond the limit.
Push(s, e) == IF Len(s) < MaxDepth THEN Append(s, e) ELSE Append(Tail(s), e)

Coalesces(key) == key # NoKey /\ key = lastKey /\ elapsed < Window

\* Mutants of Checkpoint: a new edit leaves the redo steps; the label and the
\* key change places.
CheckpointKeepsRedo(state, label, key) ==
    /\ elapsed' = 0
    /\ UNCHANGED redo
    /\ IF Coalesces(key) THEN UNCHANGED <<undo, lastKey>>
       ELSE /\ undo' = Push(undo, [state |-> state, label |-> label])
            /\ lastKey' = key

CheckpointSwapped(state, label, key) ==
    /\ elapsed' = 0
    /\ undo' = Push(undo, [state |-> state, label |-> key])
    /\ redo' = <<>>
    /\ lastKey' = label

\* checkpoint(state, label, key): the step of a burst only slides the window.
Checkpoint(state, label, key) ==
    /\ elapsed' = 0
    /\ \/ /\ Coalesces(key)
          /\ UNCHANGED <<undo, redo, lastKey>>
       \/ /\ ~ Coalesces(key)
          /\ undo' = Push(undo, [state |-> state, label |-> label])
          /\ redo' = <<>>
          /\ lastKey' = key

\* Mutant of TakeBack: undo does not end the burst.
TakeBackKeepsBurst(current) ==
    /\ undo # <<>>
    /\ undo' = Pop(undo)
    /\ redo' = Append(redo, [state |-> current, label |-> Top(undo).label])
    /\ UNCHANGED <<lastKey, elapsed>>

\* undo(current): the restored state is Top(undo).state.
TakeBack(current) ==
    /\ undo # <<>>
    /\ undo' = Pop(undo)
    /\ redo' = Append(redo, [state |-> current, label |-> Top(undo).label])
    /\ lastKey' = NoKey
    /\ UNCHANGED elapsed

\* redo(current): the restored state is Top(redo).state.
PutBack(current) ==
    /\ redo # <<>>
    /\ redo' = Pop(redo)
    /\ undo' = Append(undo, [state |-> current, label |-> Top(redo).label])
    /\ lastKey' = NoKey
    /\ UNCHANGED elapsed

\* Mutant of Wipe: the burst survives it.
WipeKeepsBurst == undo' = <<>> /\ redo' = <<>> /\ UNCHANGED <<lastKey, elapsed>>

\* clear().
Wipe == /\ undo' = <<>>
        /\ redo' = <<>>
        /\ lastKey' = NoKey
        /\ elapsed' = Window

-----------------------------------------------------------------------------
\* The caller's protocol.  A mutation that turns out to change nothing (paste
\* of an empty clipboard, clear of empty cells) has taken its checkpoint too.
Edit(s, label, key) == Checkpoint(live, label, key) /\ live' = s

Undo == TakeBack(live) /\ live' = Top(undo).state

Redo == PutBack(live) /\ live' = Top(redo).state

Clear == Wipe /\ UNCHANGED live

Tick == /\ elapsed < Window
        /\ elapsed' = elapsed + 1
        /\ UNCHANGED <<undo, redo, lastKey, live>>

Next == \/ \E s \in States, l \in Labels, k \in Keys \cup {NoKey} : Edit(s, l, k)
        \/ Undo
        \/ Redo
        \/ Clear
        \/ Tick

Spec == Init /\ [][Next]_vars

-----------------------------------------------------------------------------
\* While a burst can still absorb an edit nothing is undone: the coalescing
\* path of checkpoint(), which does not clear _redo, never leaves a redo step
\* that leads to a state the edit has superseded.
BurstHasNoRedo == lastKey # NoKey => redo = <<>>

\* max_depth bounds the whole history and not only the stack that checkpoint()
\* trims: redo() appends without a check, and may do so only because every
\* entry it moves was once counted in _undo.
HistoryBounded == Len(undo) + Len(redo) <= MaxDepth

\* A burst is one step: the edit that opened it left its pre-burst snapshot
\* on top, so an open burst always has something to take back.
BurstCanBeUndone == lastKey # NoKey => undo # <<>>

-----------------------------------------------------------------------------
\* Two stacks u and r around a state s, read as one line of states, and the
\* labels of the steps between them.
LineOf(u, s, r) ==
    [i \in 1 .. Len(u) + 1 + Len(r) |->
        IF i <= Len(u) THEN u[i].state
        ELSE IF i = Len(u) + 1 THEN s
        ELSE r[Len(u) + 2 + Len(r) - i].state]

TagsOf(u, r) ==
    [i \in 1 .. Len(u) + Len(r) |->
        IF i <= Len(u) THEN u[i].label ELSE r[Len(u) + 1 + Len(r) - i].label]

Timeline == INSTANCE UndoTimeline WITH line <- LineOf(undo, live, redo),
                                       tags <- TagsOf(undo, redo),
                                       cursor <- Len(undo) + 1

\* The stack implements the timeline: undo and redo are inverse walks along
\* one line, a new edit cuts the future off, a burst is one step, and each
\* label stays with its own transition.
ImplementsTimeline == Timeline!Spec
=============================================================================
