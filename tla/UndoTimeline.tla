---------------------------- MODULE UndoTimeline ----------------------------
(***************************************************************************)
(* What an undo history promises to the person using it: one line of       *)
(* document states with a cursor.  Undo and redo only move the cursor; a   *)
(* new step cuts off everything after the cursor and extends the line; a   *)
(* step of a burst replaces the newest state, which it may do only when    *)
(* nothing has been undone.  UndoStack.tla is shown to implement this.     *)
(***************************************************************************)
EXTENDS Integers, Sequences

CONSTANTS
    States,     \* document states, opaque
    Labels,     \* names of the steps ("edit A1", "paste", ...)
    MaxDepth    \* how many steps can be taken back at most

VARIABLES
    line,       \* the states, oldest first
    tags,       \* tags[i] names the step from line[i] to line[i + 1]
    cursor      \* index of the state on screen

tvars == <<line, tags, cursor>>

Init == /\ \E s \in States : line = <<s>>
        /\ tags = <<>>
        /\ cursor = 1

\* A new step: what was undone is gone, and the oldest state falls off when
\* MaxDepth steps are already kept.
Record(s, tag) ==
    LET oldest == IF cursor > MaxDepth THEN 2 ELSE 1
    IN  /\ line' = Append(SubSeq(line, oldest, cursor), s)
        /\ tags' = Append(SubSeq(tags, oldest, cursor - 1), tag)
        /\ cursor' = cursor + 2 - oldest

\* One more edit of the burst that made the newest state.
Amend(s) == /\ cursor = Len(line)
            /\ line' = [line EXCEPT ![cursor] = s]
            /\ UNCHANGED <<tags, cursor>>

Back == /\ cursor > 1
        /\ cursor' = cursor - 1
        /\ UNCHANGED <<line, tags>>

Forward == /\ cursor < Len(line)
           /\ cursor' = cursor + 1
           /\ UNCHANGED <<line, tags>>

Forget == /\ line' = <<line[cursor]>>
          /\ tags' = <<>>
          /\ cursor' = 1

Next == \/ \E s \in States, tag \in Labels : Record(s, tag)
        \/ \E s \in States : Amend(s)
        \/ Back
        \/ Forward
        \/ Forget

Spec == Init /\ [][Next]_tvars
=============================================================================
