------------------------------ MODULE RefShift ------------------------------
(***************************************************************************)
(* abax/core/structure.py and abax/core/translate.py: how a reference      *)
(* changes when lines (rows or columns) are inserted or deleted, and when  *)
(* the formula that holds it is copied elsewhere.  A parsed reference is a *)
(* record with a 0-based coordinate on each axis and the axes that a $     *)
(* fixes; an operand of a formula is a cell, a range, a spill reference    *)
(* (A1#) or #REF!, on the formula's own sheet or on a named one.           *)
(***************************************************************************)
EXTENDS Integers

Axes == {"row", "col"}

Own  == "own"       \* no sheet qualifier
Gone == -1          \* shift_coord's None

\* shift_coord(coord, index, delta): delta lines are inserted at index, or
\* -delta lines from index on are deleted.
ShiftCoord(coord, index, delta) ==
    CASE delta >= 0 /\ coord >= index                -> coord + delta
      [] delta < 0 /\ coord >= index - delta         -> coord + delta
      [] delta < 0 /\ coord \in index .. index - delta - 1 -> Gone
      [] OTHER                                       -> coord

\* The ends of a range on one axis: those within deleted lines are clamped to
\* the lines that survive on either side.
ClampFirst(coord, index, delta) ==
    LET new == ShiftCoord(coord, index, delta) IN IF new = Gone THEN index ELSE new

\* Mutant of ClampLast: the first line after the deleted ones.
ClampLastAfter(coord, index, delta) ==
    LET new == ShiftCoord(coord, index, delta) IN IF new = Gone THEN index ELSE new

ClampLast(coord, index, delta) ==
    LET new == ShiftCoord(coord, index, delta) IN IF new = Gone THEN index - 1 ELSE new

-----------------------------------------------------------------------------
RefError == [form |-> "error", sheet |-> Own]      \* #REF!

IsRegion(operand) == operand.form \in {"cell", "range"}

TargetSheet(operand, own) == IF operand.sheet = Own THEN own ELSE operand.sheet

\* adjust_reference on an operand that targets the edited sheet.
AdjustReference(operand, axis, index, delta) ==
    LET new == ShiftCoord(operand.first[axis], index, delta)
    IN  IF new = Gone THEN RefError
        ELSE [operand EXCEPT !.first[axis] = new, !.last[axis] = new]

\* Mutant of AdjustRange: an end within deleted lines takes the range with it.
AdjustRangeStrict(operand, axis, index, delta) ==
    LET first == ShiftCoord(operand.first[axis], index, delta)
        last  == ShiftCoord(operand.last[axis], index, delta)
    IN  IF first = Gone \/ last = Gone THEN RefError
        ELSE [operand EXCEPT !.first[axis] = first, !.last[axis] = last]

\* adjust_range on an operand that targets the edited sheet.
AdjustRange(operand, axis, index, delta) ==
    LET first == ClampFirst(operand.first[axis], index, delta)
        last  == ClampLast(operand.last[axis], index, delta)
    IN  IF delta < 0 /\ first > last THEN RefError
        ELSE [operand EXCEPT !.first[axis] = first, !.last[axis] = last]

\* adjust_formula on one operand of a formula on sheet own.  The tokens of a
\* spill reference are left alone, but written back without their #.
AdjustOperand(operand, own, edited, axis, index, delta) ==
    CASE operand.form = "error" -> operand
      [] operand.form = "spill" -> [operand EXCEPT !.form = "cell"]
      [] IsRegion(operand) /\ TargetSheet(operand, own) # edited -> operand
      [] operand.form = "cell" /\ TargetSheet(operand, own) = edited ->
            AdjustReference(operand, axis, index, delta)
      [] operand.form = "range" /\ TargetSheet(operand, own) = edited ->
            AdjustRange(operand, axis, index, delta)

-----------------------------------------------------------------------------
\* Mutant of Moved: $ fixes nothing.
MovedFreely(ref, by) == [ref EXCEPT !.row = @ + by.row, !.col = @ + by.col]

Moved(ref, by) ==
    [ref EXCEPT !.row = IF "row" \in ref.fixed THEN @ ELSE @ + by.row,
                !.col = IF "col" \in ref.fixed THEN @ ELSE @ + by.col]

OnSheet(ref) == ref.row >= 0 /\ ref.col >= 0

\* shift_formula on one operand: what $ does not fix moves along, a reference
\* that leaves the sheet is #REF!, and again a spill reference loses its #.
ShiftOperand(operand, by) ==
    LET first == Moved(operand.first, by)
        last  == Moved(operand.last, by)
    IN  CASE operand.form = "error" \/ (by.row = 0 /\ by.col = 0) -> operand
          [] operand.form = "spill" /\ (by.row # 0 \/ by.col # 0) ->
                [operand EXCEPT !.form = "cell"]
          [] IsRegion(operand) /\ (by.row # 0 \/ by.col # 0) ->
                IF OnSheet(first) /\ OnSheet(last)
                THEN [operand EXCEPT !.first = first, !.last = last]
                ELSE RefError
=============================================================================
