--------------------------- MODULE SheetEditsProofs --------------------------
(***************************************************************************)
(* Proofs about SheetEdits and the arithmetic of RefShift that it rests    *)
(* on, for any sheets, any operands and any number of edits: what is       *)
(* inserted or deleted leaves every reference on its lines.                *)
(*                                                                         *)
(* The first part is about references alone: survivors keep their order,   *)
(* a range keeps the lines of it that survive and vanishes with the last,  *)
(* an insertion is undone by the deletion of the same lines, and a copy by *)
(* a copy back.                                                            *)
(*                                                                         *)
(* The second is about the commands.  The invariant says what sheets,      *)
(* clip, rules and names hold, that no two lines share an identity, and    *)
(* that each operand covers what it is owed; its proof goes command by     *)
(* command, the structural edits resting on the first part.  The promises  *)
(* follow, then what a single step does to copies and styles.              *)
(***************************************************************************)
EXTENDS SheetEdits, SequenceTheorems, FiniteSetTheorems, TLAPS

Coord == [row : Nat, col : Nat, fixed : SUBSET Axes]

\* Operands with coordinates, whichever sheet they name; the range runs from
\* its first corner to its last, as the tokens of most formulas do.
Cells  == {o \in [form : {"cell"}, sheet : STRING, first : Coord, last : Coord] : o.first = o.last}
Ranges == {o \in [form : {"range"}, sheet : STRING, first : Coord, last : Coord] :
              \A axis \in Axes : o.first[axis] <= o.last[axis]}

\* The lines that are deleted.
Deleted(index, delta) == index .. index - delta - 1

Survives(line, index, delta) == ShiftCoord(line, index, delta) # Gone

-----------------------------------------------------------------------------
\* Lines.

\* A line is gone exactly when it is deleted; the others stay on the sheet.
LEMMA ShiftedLines ==
    ASSUME NEW line \in Nat, NEW index \in Nat, NEW delta \in Int
    PROVE  /\ Survives(line, index, delta) <=> ~ (delta < 0 /\ line \in Deleted(index, delta))
           /\ Survives(line, index, delta) => ShiftCoord(line, index, delta) \in Nat
BY DEF ShiftCoord, Gone, Survives, Deleted

\* Lines that survive keep their order, so that no two of them meet.
THEOREM SurvivorsKeepOrder ==
    ASSUME NEW a \in Nat, NEW b \in Nat, NEW index \in Nat, NEW delta \in Int,
           Survives(a, index, delta), Survives(b, index, delta), a < b
    PROVE  ShiftCoord(a, index, delta) < ShiftCoord(b, index, delta)
BY DEF ShiftCoord, Gone, Survives

\* Inserted lines can be deleted again: every line is back where it was.
THEOREM InsertThenDelete ==
    ASSUME NEW line \in Nat, NEW index \in Nat, NEW n \in Nat
    PROVE  ShiftCoord(ShiftCoord(line, index, n), index, - n) = line
BY DEF ShiftCoord, Gone

\* The ends of a range come back too.
LEMMA ClampedBack ==
    ASSUME NEW line \in Nat, NEW index \in Nat, NEW n \in Nat
    PROVE  /\ ClampFirst(line, index, n) \in Nat
           /\ ClampLast(line, index, n) \in Nat
           /\ ClampFirst(ClampFirst(line, index, n), index, - n) = line
           /\ ClampLast(ClampLast(line, index, n), index, - n) = line
<1>1. ShiftCoord(line, index, n) \in Nat
  BY DEF ShiftCoord, Gone
<1>2. /\ ClampFirst(line, index, n) = ShiftCoord(line, index, n)
      /\ ClampLast(line, index, n) = ShiftCoord(line, index, n)
  BY <1>1 DEF ClampFirst, ClampLast, Gone
<1>3. ShiftCoord(ShiftCoord(line, index, n), index, - n) = line
  BY InsertThenDelete
<1>4. line # Gone
  BY DEF Gone
<1> QED BY <1>1, <1>2, <1>3, <1>4 DEF ClampFirst, ClampLast

-----------------------------------------------------------------------------
\* Ranges on one axis.

\* The ends of a range are clamped so that it covers the lines of it that
\* survive, where they have gone, and no other line that survives.
THEOREM RangeKeepsSurvivors ==
    ASSUME NEW first \in Nat, NEW last \in Nat, first <= last,
           NEW index \in Nat, NEW delta \in Int,
           NEW line \in Nat, Survives(line, index, delta)
    PROVE  line \in first .. last <=>
               ShiftCoord(line, index, delta)
                   \in ClampFirst(first, index, delta) .. ClampLast(last, index, delta)
BY DEF ShiftCoord, Gone, Survives, ClampFirst, ClampLast

\* The clamped ends cross exactly when every line of the range is deleted.
THEOREM RangeVanishes ==
    ASSUME NEW first \in Nat, NEW last \in Nat, first <= last,
           NEW index \in Nat, NEW delta \in Int, delta < 0
    PROVE  ClampFirst(first, index, delta) > ClampLast(last, index, delta) <=>
               \A line \in first .. last : ~ Survives(line, index, delta)
<1>1. ClampFirst(first, index, delta) > ClampLast(last, index, delta) <=>
          index <= first /\ last <= index - delta - 1
  BY DEF ShiftCoord, Gone, ClampFirst, ClampLast
<1>2. \A line \in first .. last :
          Survives(line, index, delta) <=> ~ (line \in Deleted(index, delta))
  <2> TAKE line \in first .. last
  <2>1. line \in Nat
    OBVIOUS
  <2> QED BY <2>1, ShiftedLines
<1>3. index <= first /\ last <= index - delta - 1 <=>
          \A line \in first .. last : line \in Deleted(index, delta)
  <2>1. first \in first .. last /\ last \in first .. last
    OBVIOUS
  <2>2. ASSUME \A line \in first .. last : line \in Deleted(index, delta)
        PROVE  index <= first /\ last <= index - delta - 1
    <3>1. first \in Deleted(index, delta) /\ last \in Deleted(index, delta)
      BY <2>1, <2>2
    <3> QED BY <3>1 DEF Deleted
  <2>3. ASSUME index <= first /\ last <= index - delta - 1, NEW line \in first .. last
        PROVE  line \in Deleted(index, delta)
    BY <2>3 DEF Deleted
  <2> QED BY <2>2, <2>3
<1> QED BY <1>1, <1>2, <1>3

-----------------------------------------------------------------------------
\* Operands.

\* A range that the edited sheet holds is #REF! when all its lines on the
\* edited axis are deleted, and only then; otherwise it covers the survivors,
\* runs from first to last, and is the same on the other axis.
THEOREM AdjustedRange ==
    ASSUME NEW o \in Ranges, NEW axis \in Axes, NEW index \in Nat, NEW delta \in Int
    PROVE  LET new == AdjustRange(o, axis, index, delta)
           IN  /\ new = RefError <=>
                     delta < 0 /\ \A line \in o.first[axis] .. o.last[axis] :
                                     ~ Survives(line, index, delta)
               /\ new # RefError =>
                     /\ new \in Ranges
                     /\ \A other \in Axes \ {axis} : /\ new.first[other] = o.first[other]
                                                     /\ new.last[other] = o.last[other]
                     /\ \A line \in Nat : Survives(line, index, delta) =>
                           (line \in o.first[axis] .. o.last[axis] <=>
                            ShiftCoord(line, index, delta) \in new.first[axis] .. new.last[axis])
<1> DEFINE f == ClampFirst(o.first[axis], index, delta)
           l == ClampLast(o.last[axis], index, delta)
           moved == [o EXCEPT !.first[axis] = f, !.last[axis] = l]
<1>1. /\ o.first \in Coord /\ o.last \in Coord
      /\ o.first[axis] \in Nat /\ o.last[axis] \in Nat /\ o.first[axis] <= o.last[axis]
      /\ o.form = "range" /\ o.sheet \in STRING
  BY DEF Ranges, Coord, Axes
<1>2. f \in Nat /\ l \in Int /\ (f <= l => l \in Nat) /\ (delta >= 0 => f <= l)
  BY <1>1 DEF ShiftCoord, Gone, ClampFirst, ClampLast
<1>3. /\ moved.first[axis] = f /\ moved.last[axis] = l /\ moved.form = "range"
      /\ \A other \in Axes \ {axis} : /\ moved.first[other] = o.first[other]
                                      /\ moved.last[other] = o.last[other]
  BY <1>1 DEF Ranges, Coord, Axes
<1>4. moved # RefError
  BY <1>3 DEF RefError
<1>5. AdjustRange(o, axis, index, delta) = IF delta < 0 /\ f > l THEN RefError ELSE moved
  BY DEF AdjustRange
<1>6. f <= l => moved \in Ranges
  BY <1>1, <1>2, <1>3 DEF Ranges, Coord, Axes
<1>7. \A line \in Nat : Survives(line, index, delta) =>
          (line \in o.first[axis] .. o.last[axis] <=>
           ShiftCoord(line, index, delta) \in f .. l)
  BY <1>1, RangeKeepsSurvivors
<1>8. delta < 0 => (f > l <=> \A line \in o.first[axis] .. o.last[axis] :
                                  ~ Survives(line, index, delta))
  BY <1>1, RangeVanishes
<1> HIDE DEF f, l, moved
<1>9. f > l <=> ~ (f <= l)
  BY <1>2
<1>10. CASE delta < 0 /\ f > l
  BY <1>4, <1>5, <1>8, <1>10
<1>11. CASE ~ (delta < 0 /\ f > l)
  <2>1. f <= l
    BY <1>2, <1>9, <1>11
  <2> QED BY <1>3, <1>4, <1>5, <1>6, <1>7, <1>8, <1>11, <2>1
<1> QED BY <1>10, <1>11

\* Deleting the lines that were just inserted gives every formula its operands
\* back, whichever sheets they name; spill references are the exception, as
\* their # is lost.
THEOREM OperandComesBack ==
    ASSUME NEW o \in Cells \cup Ranges, NEW own, NEW edited, NEW axis \in Axes,
           NEW index \in Nat, NEW n \in Nat
    PROVE  AdjustOperand(AdjustOperand(o, own, edited, axis, index, n),
                         own, edited, axis, index, - n) = o
<1>1. /\ o \in [form : {"cell", "range"}, sheet : STRING, first : Coord, last : Coord]
      /\ o.first[axis] \in Nat /\ o.last[axis] \in Nat /\ o.first[axis] <= o.last[axis]
      /\ o.form = "cell" => o.first = o.last
  BY DEF Cells, Ranges, Coord, Axes
<1>2. CASE TargetSheet(o, own) # edited
  BY <1>1, <1>2 DEF AdjustOperand, IsRegion
<1>3. CASE TargetSheet(o, own) = edited /\ o.form = "cell"
  <2> DEFINE c == ShiftCoord(o.first[axis], index, n)
             moved == [o EXCEPT !.first[axis] = c, !.last[axis] = c]
  <2>1. c \in Nat /\ c # Gone /\ ShiftCoord(c, index, - n) = o.first[axis]
    BY <1>1, InsertThenDelete DEF ShiftCoord, Gone
  <2>2. AdjustOperand(o, own, edited, axis, index, n) = moved
    BY <1>3, <2>1 DEF AdjustOperand, AdjustReference, IsRegion
  <2>3. /\ moved \in [form : {"cell"}, sheet : STRING, first : Coord, last : Coord]
        /\ moved.form = "cell" /\ TargetSheet(moved, own) = edited /\ moved.first[axis] = c
    BY <1>1, <1>3, <2>1 DEF Coord, Axes, TargetSheet
  <2>4. [moved EXCEPT !.first[axis] = o.first[axis], !.last[axis] = o.first[axis]] = o
    BY <1>1, <1>3, <2>1 DEF Coord, Axes
  <2> HIDE DEF moved, c
  <2>5. AdjustOperand(moved, own, edited, axis, index, - n)
            = [moved EXCEPT !.first[axis] = o.first[axis], !.last[axis] = o.first[axis]]
    <3>1. ShiftCoord(moved.first[axis], index, - n) # Gone
      BY <1>1, <2>1, <2>3 DEF Gone
    <3> QED BY <2>1, <2>3, <3>1 DEF AdjustOperand, AdjustReference, IsRegion
  <2> QED BY <2>2, <2>4, <2>5
<1>4. CASE TargetSheet(o, own) = edited /\ o.form = "range"
  <2> DEFINE f == ClampFirst(o.first[axis], index, n)
             l == ClampLast(o.last[axis], index, n)
             moved == [o EXCEPT !.first[axis] = f, !.last[axis] = l]
  <2>1. /\ f \in Nat /\ l \in Nat
        /\ ClampFirst(f, index, - n) = o.first[axis] /\ ClampLast(l, index, - n) = o.last[axis]
    <3>1. o.first[axis] \in Nat /\ o.last[axis] \in Nat
      BY <1>1
    <3> QED BY <3>1, ClampedBack
  <2>2. AdjustOperand(o, own, edited, axis, index, n) = moved
    BY <1>4 DEF AdjustOperand, AdjustRange, IsRegion
  <2>3. /\ moved.form = "range" /\ TargetSheet(moved, own) = edited
        /\ moved.first[axis] = f /\ moved.last[axis] = l
    BY <1>1, <1>4, <2>1 DEF Coord, Axes, TargetSheet
  <2>4. [moved EXCEPT !.first[axis] = o.first[axis], !.last[axis] = o.last[axis]] = o
    BY <1>1, <1>4, <2>1 DEF Coord, Axes
  <2> HIDE DEF moved, f, l
  <2>5. AdjustOperand(moved, own, edited, axis, index, - n)
            = [moved EXCEPT !.first[axis] = o.first[axis], !.last[axis] = o.last[axis]]
    <3>1. AdjustOperand(moved, own, edited, axis, index, - n) = AdjustRange(moved, axis, index, - n)
      BY <2>3 DEF AdjustOperand, IsRegion
    <3>2. /\ ClampFirst(moved.first[axis], index, - n) = o.first[axis]
          /\ ClampLast(moved.last[axis], index, - n) = o.last[axis]
          /\ ~ (o.first[axis] > o.last[axis])
      BY <1>1, <2>1, <2>3, SMTT(30)
    <3> QED BY <3>1, <3>2 DEF AdjustRange
  <2> QED BY <2>2, <2>4, <2>5
<1> QED BY <1>1, <1>2, <1>3, <1>4

-----------------------------------------------------------------------------
\* Copies.

Vectors == [row : Int, col : Int]

Back(by) == [row |-> 0 - by.row, col |-> 0 - by.col]

LEMMA MovedBack ==
    ASSUME NEW ref \in Coord, NEW by \in Vectors
    PROVE  Moved(Moved(ref, by), Back(by)) = ref
<1>1. /\ Back(by).row = 0 - by.row /\ Back(by).col = 0 - by.col
      /\ by.row \in Int /\ by.col \in Int /\ ref.row \in Nat /\ ref.col \in Nat
  BY SMTT(30) DEF Back, Coord, Vectors
<1> DEFINE to == Moved(ref, by)
<1>2. /\ to.fixed = ref.fixed
      /\ to.row = IF "row" \in ref.fixed THEN ref.row ELSE ref.row + by.row
      /\ to.col = IF "col" \in ref.fixed THEN ref.col ELSE ref.col + by.col
      /\ \A r, c : [to EXCEPT !.row = r, !.col = c] = [ref EXCEPT !.row = r, !.col = c]
  BY DEF Moved, Coord
<1>3. [ref EXCEPT !.row = ref.row, !.col = ref.col] = ref
  BY DEF Coord
<1> HIDE DEF to
<1>4. /\ (IF "row" \in to.fixed THEN to.row ELSE to.row + Back(by).row) = ref.row
      /\ (IF "col" \in to.fixed THEN to.col ELSE to.col + Back(by).col) = ref.col
  <2>1. ASSUME NEW r \in Int, NEW d \in Int PROVE r + d + (0 - d) = r
    OBVIOUS
  <2>2. /\ "row" \notin ref.fixed => to.row + Back(by).row = ref.row
        /\ "col" \notin ref.fixed => to.col + Back(by).col = ref.col
    <3>1. ASSUME "row" \notin ref.fixed PROVE to.row + Back(by).row = ref.row
      <4>1. to.row = ref.row + by.row
        BY <1>2, <3>1
      <4> QED BY <1>1, <4>1, <2>1, SMTT(30)
    <3>2. ASSUME "col" \notin ref.fixed PROVE to.col + Back(by).col = ref.col
      <4>1. to.col = ref.col + by.col
        BY <1>2, <3>2
      <4> QED BY <1>1, <4>1, <2>1, SMTT(30)
    <3> QED BY <3>1, <3>2
  <2> QED BY <1>2, <2>2
<1>5. Moved(to, Back(by)) = [to EXCEPT !.row = ref.row, !.col = ref.col]
  BY <1>4, Zenon DEF Moved
<1> QED BY <1>2, <1>3, <1>5 DEF to

\* A copy that stays on the sheet, copied back, is what it was: what $ fixes
\* and what it does not.
THEOREM CopyComesBack ==
    ASSUME NEW o \in Cells \cup Ranges, NEW by \in Vectors, ShiftOperand(o, by) # RefError
    PROVE  ShiftOperand(ShiftOperand(o, by), Back(by)) = o
<1>1. /\ o \in [form : {"cell", "range"}, sheet : STRING, first : Coord, last : Coord]
      /\ o.first \in Coord /\ o.last \in Coord
  BY DEF Cells, Ranges
<1>2. CASE by.row = 0 /\ by.col = 0
  <2>1. Back(by).row = 0 /\ Back(by).col = 0
    BY <1>2 DEF Back, Vectors
  <2>2. ShiftOperand(o, by) = o
    BY <1>2, <1>1 DEF ShiftOperand, IsRegion
  <2> QED BY <2>1, <2>2, <1>1 DEF ShiftOperand, IsRegion
<1>3. CASE by.row # 0 \/ by.col # 0
  <2> DEFINE moved == [o EXCEPT !.first = Moved(o.first, by), !.last = Moved(o.last, by)]
  <2>1. ShiftOperand(o, by) = moved
    BY <1>1, <1>3 DEF ShiftOperand, IsRegion
  <2>2. Back(by).row # 0 \/ Back(by).col # 0
    BY <1>3 DEF Back, Vectors
  <2>3. /\ moved.form \in {"cell", "range"}
        /\ Moved(moved.first, Back(by)) = o.first /\ Moved(moved.last, Back(by)) = o.last
    BY <1>1, MovedBack
  <2>4. OnSheet(o.first) /\ OnSheet(o.last)
    BY <1>1 DEF OnSheet, Coord
  <2>5. [moved EXCEPT !.first = o.first, !.last = o.last] = o
    BY <1>1
  <2> HIDE DEF moved
  <2>6. ShiftOperand(moved, Back(by)) = [moved EXCEPT !.first = o.first, !.last = o.last]
    BY <2>2, <2>3, <2>4 DEF ShiftOperand, IsRegion
  <2> QED BY <2>1, <2>5, <2>6
<1> QED BY <1>2, <1>3

-----------------------------------------------------------------------------
\* The inductive invariant: what the sheets hold is sound, whichever way it
\* came there, and what the ghosts remember is what the positions cover.

Ids == Nat \X Nat

\* Every line has an identity of its own, given by a step that has been made.
LinesOK ==
    /\ steps \in Nat
    /\ lines \in [Sheets -> [Axes -> Seq(Ids)]]
    /\ \A s \in Sheets, axis \in Axes :
           LET ids == lines[s][axis]
           IN  \A i \in 1 .. Len(ids) :
                   /\ ids[i][1] <= steps
                   /\ \A j \in 1 .. Len(ids) : ids[i] = ids[j] => i = j

Refs == [row : Int, col : Int, fixed : SUBSET Axes]

Tokens == {RefError} \cup [form : {"cell", "range", "spill"}, sheet : Sheets \cup {Own},
                           first : Refs, last : Refs]

Plains   == [kind : {"plain"}, number : Numbers]
Formulas == [kind : {"formula"}, operand : {o \in Tokens : IsOperand(o)},
             inOrder : BOOLEAN, means : [Axes -> SUBSET Ids]]

Content == {Empty} \cup Plains \cup Formulas

\* A formula of sheet s that has its corners in order covers what it means.
Faithful(s, c) ==
    c.kind = "formula" /\ c.inOrder =>
        IF c.operand.form = "error" THEN Vanished(c.means)
        ELSE /\ InOrder(c.operand)
             /\ Within(TargetSheet(c.operand, s), c.operand)
             /\ c.means = Covered(TargetSheet(c.operand, s), c.operand)

Sound(s) == {c \in Content : Faithful(s, c)}

CellsOK ==
    /\ cells = [s \in Sheets |-> cells[s]]
    /\ \A s \in Sheets : \A p \in DOMAIN cells[s] : p \in Position /\ cells[s][p] \in Sound(s)

StylesOK ==
    /\ styles = [s \in Sheets |-> styles[s]]
    /\ \A s \in Sheets : DOMAIN styles[s] \subseteq Position

\* The operands of rules and names: regions of a sheet t.
Region(o) == IsOperand(o) /\ IsRegion(o)

OnLines(t, o) == Region(o) /\ InOrder(o) /\ Within(t, o)

RulesOK ==
    /\ rules = [l \in Lists |-> rules[l]]
    /\ owed = [l \in Lists |-> owed[l]]
    /\ \A l \in Lists : \A o \in rules[l] : o.sheet = Own /\ OnLines(l[1], o)
    /\ RulesFollow

Dues == [sheet : Sheets, bare : BOOLEAN, strayed : BOOLEAN, means : [Axes -> SUBSET Ids]]

\* A name that is there refers to the sheet it ought to; unless it has strayed,
\* it covers what it ought to, and it is gone only with its lines.
NameOK(n) ==
    LET due == namesOwed[n]
    IN  /\ n \in DOMAIN names =>
              /\ Region(names[n])
              /\ names[n].sheet = IF due.bare THEN Own ELSE due.sheet
        /\ ~ due.strayed =>
              IF n \in DOMAIN names
              THEN OnLines(due.sheet, names[n]) /\ Covered(due.sheet, names[n]) = due.means
              ELSE Vanished(due.means)

NamesOK ==
    /\ names = [n \in DOMAIN names |-> names[n]]
    /\ namesOwed \in [DOMAIN namesOwed -> Dues]
    /\ DOMAIN names \subseteq DOMAIN namesOwed
    /\ \A n \in DOMAIN namesOwed : NameOK(n)

ClipOK ==
    clip # NoClip =>
        /\ clip = [kind |-> "clip", origin |-> clip.origin, grid |-> clip.grid]
        /\ clip.origin \in Position
        /\ \A p \in DOMAIN clip.grid :
               /\ p \in Position
               /\ p.row >= clip.origin.row /\ p.col >= clip.origin.col
               /\ clip.grid[p] \in Content

IInv == /\ active \in Sheets
        /\ LinesOK
        /\ CellsOK
        /\ StylesOK
        /\ RulesOK
        /\ NamesOK
        /\ ClipOK
-----------------------------------------------------------------------------
\* What inserting and deleting lines does to their identities.

\* The lines that InsertOrDelete names are lines of the sheet.
Fits(s, axis, index, delta) ==
    /\ s \in Sheets
    /\ axis \in Axes
    /\ delta \in Int
    /\ index \in 0 .. Len(lines[s][axis])
    /\ delta < 0 => index - delta <= Len(lines[s][axis])

\* new is old, a sequence over S, with the elements after a up to b taken out
\* and those of more put there.
IsSplice(new, old, more, a, b, S) ==
    /\ new \in Seq(S)
    /\ Len(new) = Len(old) + Len(more) - (b - a)
    /\ \A j \in 1 .. Len(new) :
          new[j] = IF j <= a THEN old[j]
                   ELSE IF j <= a + Len(more) THEN more[j - a]
                   ELSE old[j - Len(more) + (b - a)]

LEMMA Spliced ==
    ASSUME NEW S, NEW old \in Seq(S), NEW more \in Seq(S),
           NEW a \in 0 .. Len(old), NEW b \in a .. Len(old)
    PROVE  IsSplice(SubSeq(old, 1, a) \o more \o SubSeq(old, b + 1, Len(old)), old, more, a, b, S)
<1>1. /\ Len(old) \in Nat /\ Len(more) \in Nat
      /\ \A i \in 1 .. Len(old) : old[i] \in S
  BY LenProperties, ElementOfSeq
<1>2. PICK kept : kept = SubSeq(old, 1, a)
  OBVIOUS
<1>3. PICK rest : rest = SubSeq(old, b + 1, Len(old))
  OBVIOUS
<1>4. /\ kept \in Seq(S) /\ Len(kept) = a
      /\ \A j \in 1 .. a : kept[j] = old[j]
  <2>1. \A i \in 1 .. a : old[i] \in S
    BY <1>1
  <2>2. /\ kept \in Seq(S)
        /\ Len(kept) = IF 1 <= a THEN a - 1 + 1 ELSE 0
        /\ \A i \in 1 .. a - 1 + 1 : kept[i] = old[1 + i - 1]
    BY <2>1, <1>1, <1>2, SubSeqProperties
  <2> QED BY <2>2, <1>1
<1>5. /\ rest \in Seq(S) /\ Len(rest) = Len(old) - b
      /\ \A j \in 1 .. Len(old) - b : rest[j] = old[b + j]
  <2>1. \A i \in b + 1 .. Len(old) : old[i] \in S
    BY <1>1
  <2>2. b + 1 \in Int /\ Len(old) \in Int
    BY <1>1
  <2>3. /\ rest \in Seq(S)
        /\ Len(rest) = IF b + 1 <= Len(old) THEN Len(old) - (b + 1) + 1 ELSE 0
        /\ \A i \in 1 .. Len(old) - (b + 1) + 1 : rest[i] = old[b + 1 + i - 1]
    BY <2>1, <2>2, <1>3, SubSeqProperties
  <2>4. Len(rest) = Len(old) - b
    BY <2>3, <1>1
  <2>5. ASSUME NEW j \in 1 .. Len(old) - b PROVE rest[j] = old[b + j]
    <3>1. j \in 1 .. Len(old) - (b + 1) + 1 /\ b + 1 + j - 1 = b + j
      BY <1>1
    <3> QED BY <3>1, <2>3
  <2> QED BY <2>3, <2>4, <2>5
<1>6. PICK head : head = kept \o more
  OBVIOUS
<1>7. /\ head \in Seq(S) /\ Len(head) = a + Len(more)
      /\ \A j \in 1 .. a + Len(more) : head[j] = IF j <= a THEN kept[j] ELSE more[j - a]
  <2>1. kept \in Seq(S)
    BY <1>4
  <2>2. /\ head \in Seq(S) /\ Len(head) = Len(kept) + Len(more)
        /\ \A j \in 1 .. Len(kept) + Len(more) :
              head[j] = IF j <= Len(kept) THEN kept[j] ELSE more[j - Len(kept)]
    BY <2>1, <1>6, ConcatProperties
  <2> QED BY <2>2, <1>4
<1>8. PICK new : new = head \o rest
  OBVIOUS
<1>9. /\ new \in Seq(S) /\ Len(new) = Len(head) + Len(rest)
      /\ \A j \in 1 .. Len(head) + Len(rest) :
            new[j] = IF j <= Len(head) THEN head[j] ELSE rest[j - Len(head)]
  <2>1. head \in Seq(S) /\ rest \in Seq(S)
    BY <1>5, <1>7
  <2> QED BY <2>1, <1>8, ConcatProperties
<1>10. Len(new) = Len(old) + Len(more) - (b - a)
  BY <1>1, <1>5, <1>7, <1>9
<1>11. ASSUME NEW j \in 1 .. Len(new)
       PROVE  new[j] = IF j <= a THEN old[j]
                       ELSE IF j <= a + Len(more) THEN more[j - a]
                       ELSE old[j - Len(more) + (b - a)]
  <2>1. CASE j <= a
    <3>1. j \in 1 .. a /\ j \in 1 .. a + Len(more) /\ j <= Len(head) /\ j \in 1 .. Len(head) + Len(rest)
      BY <2>1, <1>1, <1>7, <1>9
    <3>2. new[j] = head[j] /\ head[j] = kept[j] /\ kept[j] = old[j]
      BY <3>1, <2>1, <1>4, <1>7, <1>9
    <3> QED BY <3>2, <2>1
  <2>2. CASE ~ (j <= a) /\ j <= a + Len(more)
    <3>1. j \in 1 .. a + Len(more) /\ j <= Len(head) /\ j \in 1 .. Len(head) + Len(rest)
      BY <2>2, <1>1, <1>7, <1>9
    <3> QED BY <3>1, <2>2, <1>7, <1>9
  <2>3. CASE ~ (j <= a) /\ ~ (j <= a + Len(more))
    <3>1. /\ ~ (j <= Len(head)) /\ j \in 1 .. Len(head) + Len(rest)
          /\ j - Len(head) \in 1 .. Len(old) - b
          /\ b + (j - Len(head)) = j - Len(more) + (b - a)
      <4>1. Len(head) = a + Len(more) /\ Len(rest) = Len(old) - b /\ Len(new) = Len(head) + Len(rest)
        BY <1>5, <1>7, <1>9
      <4>2. Len(more) \in Int /\ Len(old) \in Int /\ a \in Int /\ b \in Int /\ j \in Int
        BY <1>1
      <4>3. j >= 1 /\ j <= Len(new)
        BY <4>1, <4>2, <1>10
      <4> QED BY <2>3, <4>1, <4>2, <4>3
    <3>2. new[j] = rest[j - Len(head)]
      BY <3>1, <1>9
    <3> QED BY <3>1, <3>2, <2>3, <1>5
  <2> QED BY <2>1, <2>2, <2>3
<1>12. new = SubSeq(old, 1, a) \o more \o SubSeq(old, b + 1, Len(old))
  BY <1>2, <1>3, <1>6, <1>8
<1> QED BY <1>9, <1>10, <1>11, <1>12 DEF IsSplice

\* The identities after an edit, one by one.
LEMMA NewLinesElements ==
    ASSUME LinesOK, NEW s, NEW axis, NEW index, NEW delta, Fits(s, axis, index, delta)
    PROVE  LET ids == lines[s][axis]
               new == NewLines(s, axis, index, delta)
           IN  /\ new \in Seq(Ids)
               /\ Len(new) = Len(ids) + delta
               /\ \A j \in 1 .. Len(new) :
                     new[j] = IF j <= index THEN ids[j]
                              ELSE IF j <= index + delta THEN Fresh(j - index)
                              ELSE ids[j - delta]
<1>1. PICK ids : ids = lines[s][axis]
  OBVIOUS
<1>2. PICK more : more = [k \in 1 .. delta |-> Fresh(k)]
  OBVIOUS
<1>3. PICK taken : taken = IF delta < 0 THEN - delta ELSE 0
  OBVIOUS
<1>4. PICK new : new = NewLines(s, axis, index, delta)
  OBVIOUS
<1>5. /\ ids \in Seq(Ids) /\ Len(ids) \in Nat /\ index \in 0 .. Len(ids) /\ delta \in Int
      /\ index + taken \in index .. Len(ids) /\ taken \in Nat
  <2>1. ids \in Seq(Ids) /\ index \in 0 .. Len(ids)
    BY <1>1 DEF LinesOK, Fits
  <2>2. Len(ids) \in Nat
    BY <2>1, LenProperties
  <2>3. delta \in Int /\ (delta < 0 => index - delta <= Len(ids))
    BY <1>1 DEF Fits
  <2> QED BY <1>3, <2>1, <2>2, <2>3
<1>6. /\ more \in Seq(Ids) /\ Len(more) = IF delta < 0 THEN 0 ELSE delta
      /\ \A k \in 1 .. delta : more[k] = Fresh(k)
  <2>1. \A k \in 1 .. delta : Fresh(k) \in Ids
    BY <1>5 DEF Fresh, Ids, LinesOK
  <2>2. CASE delta < 0
    <3>1. 1 .. delta = {} /\ 1 .. delta = 1 .. 0
      BY <2>2, <1>5
    <3>2. more = << >>
      BY <3>1, <1>2
    <3>3. more \in Seq(Ids) /\ Len(more) = 0
      BY <3>2, EmptySeq
    <3> QED BY <3>1, <3>3, <2>2
  <2>3. CASE ~ (delta < 0)
    <3>1. delta \in Nat /\ more \in [1 .. delta -> Ids]
      BY <2>1, <2>3, <1>2, <1>5
    <3>2. more \in Seq(Ids)
      BY <3>1, SeqDef
    <3>3. Len(more) = delta
      BY <3>1, <3>2, LenProperties
    <3> QED BY <3>2, <3>3, <2>3, <1>2
  <2> QED BY <2>2, <2>3
<1> DEFINE next == index + taken
<1>7. new = SubSeq(ids, 1, index) \o more \o SubSeq(ids, next + 1, Len(ids))
  <2>1. index + 1 + taken = next + 1
    BY <1>5
  <2> QED BY <1>1, <1>2, <1>3, <1>4, <2>1 DEF NewLines
<1>8. /\ new \in Seq(Ids)
      /\ Len(new) = Len(ids) + Len(more) - (next - index)
      /\ \A j \in 1 .. Len(new) :
            new[j] = IF j <= index THEN ids[j]
                     ELSE IF j <= index + Len(more) THEN more[j - index]
                     ELSE ids[j - Len(more) + (next - index)]
  <2>1. /\ ids \in Seq(Ids) /\ more \in Seq(Ids)
        /\ index \in 0 .. Len(ids) /\ next \in index .. Len(ids)
    BY <1>5, <1>6
  <2> HIDE DEF next
  <2>2. IsSplice(new, ids, more, index, next, Ids)
    BY <2>1, <1>7, Spliced, Zenon
  <2> QED BY <2>2 DEF IsSplice
<1>9. Len(new) = Len(ids) + delta
  <2>1. Len(more) - (next - index) = delta
    BY <1>3, <1>5, <1>6
  <2>2. Len(more) \in Nat
    BY <1>5, <1>6
  <2> QED BY <1>5, <1>8, <2>1, <2>2
<1>10. ASSUME NEW j \in 1 .. Len(new)
       PROVE  new[j] = IF j <= index THEN ids[j]
                       ELSE IF j <= index + delta THEN Fresh(j - index) ELSE ids[j - delta]
  <2>1. CASE j <= index
    BY <2>1, <1>8
  <2>2. CASE ~ (j <= index) /\ j <= index + delta
    <3>1. j <= index + Len(more) /\ j - index \in 1 .. delta
      BY <2>2, <1>5, <1>6, <1>8
    <3> QED BY <3>1, <2>2, <1>6, <1>8
  <2>3. CASE ~ (j <= index) /\ ~ (j <= index + delta)
    <3>1. ~ (j <= index + Len(more)) /\ j - Len(more) + (next - index) = j - delta
      BY <2>3, <1>3, <1>5, <1>6, <1>8
    <3> QED BY <3>1, <2>3, <1>8
  <2> QED BY <2>1, <2>2, <2>3
<1> QED BY <1>1, <1>4, <1>8, <1>9, <1>10

\* Every line after an edit is one that survives, where it has gone, or a fresh
\* one.
Relined(ids, new, index, delta) ==
    LET len == Len(ids)
    IN  /\ Len(new) = len + delta
        /\ \A i \in 0 .. len - 1 : Survives(i, index, delta) =>
              /\ ShiftCoord(i, index, delta) \in 0 .. len + delta - 1
              /\ new[ShiftCoord(i, index, delta) + 1] = ids[i + 1]
        /\ \A k \in 1 .. delta : /\ index + k - 1 \in 0 .. len + delta - 1
                                 /\ new[index + k] = Fresh(k)
        /\ \A j \in 0 .. len + delta - 1 :
              \/ \E i \in 0 .. len - 1 : /\ Survives(i, index, delta)
                                         /\ j = ShiftCoord(i, index, delta)
              \/ j - index + 1 \in 1 .. delta

LEMMA NewLinesByOrigin ==
    ASSUME LinesOK, NEW s, NEW axis, NEW index, NEW delta, Fits(s, axis, index, delta)
    PROVE  Relined(lines[s][axis], NewLines(s, axis, index, delta), index, delta)
<1> DEFINE ids  == lines[s][axis]
           len  == Len(ids)
           new  == NewLines(s, axis, index, delta)
<1>1. /\ len \in Nat /\ index \in Nat /\ index <= len /\ delta \in Int
      /\ delta < 0 => index - delta <= len
  <2>1. ids \in Seq(Ids)
    BY DEF LinesOK, Fits
  <2> QED BY <2>1, LenProperties DEF Fits
<1>2. /\ Len(new) = len + delta
      /\ \A j \in 1 .. Len(new) :
            new[j] = IF j <= index THEN ids[j]
                     ELSE IF j <= index + delta THEN Fresh(j - index) ELSE ids[j - delta]
  BY NewLinesElements
<1> HIDE DEF new, ids, len
<1>3. ASSUME NEW i \in 0 .. len - 1, Survives(i, index, delta)
      PROVE  /\ ShiftCoord(i, index, delta) \in 0 .. len + delta - 1
             /\ new[ShiftCoord(i, index, delta) + 1] = ids[i + 1]
  <2>1. CASE i < index
    <3>1. ShiftCoord(i, index, delta) = i
      BY <2>1, <1>1 DEF ShiftCoord
    <3>2. i + 1 <= index /\ i + 1 \in 1 .. Len(new) /\ i \in 0 .. len + delta - 1
      BY <2>1, <1>1, <1>2
    <3> QED BY <3>1, <3>2, <1>2
  <2>2. CASE i >= index
    <3>1. ShiftCoord(i, index, delta) = i + delta /\ (delta < 0 => i >= index - delta)
      BY <2>2, <1>1, <1>3 DEF ShiftCoord, Survives, Gone
    <3>2. /\ ~ (i + delta + 1 <= index) /\ ~ (i + delta + 1 <= index + delta)
          /\ i + delta + 1 \in 1 .. Len(new) /\ i + delta \in 0 .. len + delta - 1
          /\ (i + delta + 1) - delta = i + 1
      BY <2>2, <3>1, <1>1, <1>2
    <3> QED BY <3>1, <3>2, <1>2
  <2> QED BY <2>1, <2>2, <1>1
<1>4. ASSUME NEW k \in 1 .. delta
      PROVE  /\ index + k - 1 \in 0 .. len + delta - 1
             /\ new[index + k] = Fresh(k)
  <2>1. /\ index + k \in 1 .. Len(new) /\ ~ (index + k <= index) /\ index + k <= index + delta
        /\ (index + k) - index = k /\ index + k - 1 \in 0 .. len + delta - 1
    BY <1>1, <1>2
  <2> QED BY <2>1, <1>2
<1>5. ASSUME NEW j \in 0 .. len + delta - 1
      PROVE  \/ \E i \in 0 .. len - 1 : /\ Survives(i, index, delta)
                                        /\ j = ShiftCoord(i, index, delta)
             \/ j - index + 1 \in 1 .. delta
  <2>1. CASE j < index
    <3>1. j \in 0 .. len - 1 /\ ShiftCoord(j, index, delta) = j /\ j # Gone
      BY <2>1, <1>1 DEF ShiftCoord, Gone
    <3> QED BY <3>1 DEF Survives
  <2>2. CASE j >= index /\ j < index + delta
    BY <2>2, <1>1
  <2>3. CASE j >= index /\ j >= index + delta
    <3>1. j - delta \in 0 .. len - 1 /\ ShiftCoord(j - delta, index, delta) = j /\ j # Gone
      BY <2>3, <1>1 DEF ShiftCoord, Gone
    <3> QED BY <3>1 DEF Survives
  <2> QED BY <2>1, <2>2, <2>3, <1>1
<1>6. Relined(ids, new, index, delta)
  BY <1>2, <1>3, <1>4, <1>5 DEF Relined, len
<1> QED BY <1>6 DEF new, ids
-----------------------------------------------------------------------------
\* What a range covers, on one axis.

Along(ids, first, last) == {ids[i + 1] : i \in first .. last}

\* The lines that an edit takes out of a range, and those that join it.
Lost(ids, index, delta) == {ids[i] : i \in index + 1 .. index - delta}

Joining(ids, reach, index, delta) ==
    IF index \in 1 .. Len(ids) - 1 /\ {ids[index], ids[index + 1]} \subseteq reach
    THEN {Fresh(k) : k \in 1 .. delta} ELSE {}

\* A range that keeps a line covers what it ought to.
LEMMA RangeFollows ==
    ASSUME LinesOK, NEW s, NEW axis, NEW index, NEW delta, Fits(s, axis, index, delta),
           NEW first \in 0 .. Len(lines[s][axis]) - 1, NEW last \in first .. Len(lines[s][axis]) - 1,
           ClampFirst(first, index, delta) <= ClampLast(last, index, delta)
    PROVE  LET ids   == lines[s][axis]
               new   == NewLines(s, axis, index, delta)
               f     == ClampFirst(first, index, delta)
               l     == ClampLast(last, index, delta)
               reach == Along(ids, first, last)
           IN  /\ f \in 0 .. Len(new) - 1 /\ l \in 0 .. Len(new) - 1
               /\ Along(new, f, l)
                    = (reach \ Lost(ids, index, delta)) \cup Joining(ids, reach, index, delta)
<1>1. PICK ids : ids = lines[s][axis]
  OBVIOUS
<1>2. PICK new : new = NewLines(s, axis, index, delta)
  OBVIOUS
<1>3. PICK f : f = ClampFirst(first, index, delta)
  OBVIOUS
<1>4. PICK l : l = ClampLast(last, index, delta)
  OBVIOUS
<1>5. PICK len : len = Len(ids)
  OBVIOUS
<1>6. /\ len \in Nat /\ index \in Nat /\ index <= len /\ delta \in Int
      /\ delta < 0 => index - delta <= len
      /\ first \in Nat /\ last \in Nat /\ first <= last /\ last < len
  <2>1. ids \in Seq(Ids)
    BY <1>1 DEF LinesOK, Fits
  <2>2. len \in Nat
    BY <2>1, <1>5, LenProperties
  <2>3. /\ index \in 0 .. len /\ delta \in Int /\ (delta < 0 => index - delta <= len)
        /\ first \in 0 .. len - 1 /\ last \in first .. len - 1
    BY <1>1, <1>5 DEF Fits
  <2> QED BY <2>2, <2>3
<1>7. /\ Len(new) = len + delta
      /\ \A i \in 0 .. len - 1 : Survives(i, index, delta) =>
            new[ShiftCoord(i, index, delta) + 1] = ids[i + 1]
      /\ \A k \in 1 .. delta : new[index + k] = Fresh(k)
      /\ \A j \in 0 .. len + delta - 1 :
            \/ \E i \in 0 .. len - 1 : /\ Survives(i, index, delta)
                                       /\ j = ShiftCoord(i, index, delta)
            \/ j - index + 1 \in 1 .. delta
  <2>1. Relined(ids, new, index, delta)
    BY <1>1, <1>2, NewLinesByOrigin
  <2> QED BY <2>1, <1>5 DEF Relined
<1>8. \A i, j \in 1 .. len : ids[i] = ids[j] => i = j
  BY <1>1, <1>5 DEF LinesOK, Fits
<1>9. \A i \in 0 .. len - 1 : Survives(i, index, delta) =>
          (i \in first .. last <=> ShiftCoord(i, index, delta) \in f .. l)
  <2> TAKE i \in 0 .. len - 1
  <2>1. i \in Nat
    BY <1>6
  <2> QED BY <2>1, <1>3, <1>4, <1>6, RangeKeepsSurvivors, Zenon
<1>10. /\ f <= l /\ f \in Nat /\ l \in Nat /\ l < len + delta
       /\ delta > 0 => (f <= index /\ index <= l => first < index /\ index <= last)
       /\ first < index /\ index <= last /\ delta > 0 => f = first /\ l = last + delta
  BY <1>3, <1>4, <1>6, SMTT(30) DEF ClampFirst, ClampLast, ShiftCoord, Gone
<1>11. ASSUME NEW x \in Along(new, f, l)
       PROVE  \/ x \in Along(ids, first, last) \ Lost(ids, index, delta)
              \/ x \in Joining(ids, Along(ids, first, last), index, delta)
  <2>1. PICK j \in f .. l : x = new[j + 1]
    BY <1>11 DEF Along
  <2>2. j \in 0 .. len + delta - 1
    BY <1>6, <1>10
  <2>3. CASE \E i \in 0 .. len - 1 : Survives(i, index, delta) /\ j = ShiftCoord(i, index, delta)
    <3>1. PICK i \in 0 .. len - 1 : Survives(i, index, delta) /\ j = ShiftCoord(i, index, delta)
      BY <2>3
    <3>2. i \in first .. last /\ x = ids[i + 1]
      BY <2>1, <3>1, <1>7, <1>9
    <3>3. x \in Along(ids, first, last)
      BY <3>2 DEF Along
    <3>4. ASSUME x \in Lost(ids, index, delta) PROVE FALSE
      <4>1. PICK m \in index + 1 .. index - delta : x = ids[m]
        BY <3>4 DEF Lost
      <4>2. m \in 1 .. len /\ i + 1 \in 1 .. len /\ delta < 0
        BY <1>6
      <4>3. m = i + 1
        BY <4>1, <4>2, <3>2, <1>8
      <4>4. i \in Deleted(index, delta)
        BY <4>2, <4>3, <1>6 DEF Deleted
      <4>5. i \in Nat
        BY <1>6
      <4> QED BY <4>2, <4>4, <4>5, <3>1, <1>6, ShiftedLines
    <3> QED BY <3>3, <3>4
  <2>4. CASE j - index + 1 \in 1 .. delta
    <3>1. /\ index <= j /\ j < index + delta /\ delta > 0 /\ index + (j - index + 1) = j + 1
      BY <2>4, <2>2, <1>6
    <3>2. x = Fresh(j - index + 1)
      BY <2>1, <2>4, <3>1, <1>7
    <3>3. first < index /\ index <= last
      BY <3>1, <1>3, <1>4, <1>6, <2>1, SMTT(30) DEF ClampFirst, ClampLast, ShiftCoord, Gone
    <3>4. index - 1 \in first .. last /\ index \in first .. last /\ index \in 1 .. len - 1
          /\ index - 1 + 1 = index
      BY <3>3, <1>6
    <3>5. ids[index] \in Along(ids, first, last) /\ ids[index + 1] \in Along(ids, first, last)
      BY <3>4 DEF Along
    <3> QED BY <3>2, <3>4, <3>5, <2>4, <1>5 DEF Joining
  <2> QED BY <2>2, <2>3, <2>4, <1>7
<1>12. ASSUME NEW x \in Along(ids, first, last) \ Lost(ids, index, delta)
       PROVE  x \in Along(new, f, l)
  <2>1. PICK i \in first .. last : x = ids[i + 1]
    BY <1>12 DEF Along
  <2>2. i \in Nat /\ i \in 0 .. len - 1
    BY <1>6
  <2>3. ASSUME delta < 0, i \in Deleted(index, delta) PROVE FALSE
    <3>1. i + 1 \in index + 1 .. index - delta
      BY <2>2, <2>3, <1>6 DEF Deleted
    <3> QED BY <3>1, <2>1, <1>12 DEF Lost
  <2>4. Survives(i, index, delta)
    BY <2>2, <2>3, <1>6, ShiftedLines
  <2>5. ShiftCoord(i, index, delta) \in f .. l /\ x = new[ShiftCoord(i, index, delta) + 1]
    BY <2>1, <2>2, <2>4, <1>7, <1>9
  <2> QED BY <2>5 DEF Along
<1>13. ASSUME NEW x \in Joining(ids, Along(ids, first, last), index, delta)
       PROVE  x \in Along(new, f, l)
  <2>1. /\ index \in 1 .. len - 1
        /\ ids[index] \in Along(ids, first, last) /\ ids[index + 1] \in Along(ids, first, last)
    BY <1>13, <1>5 DEF Joining
  <2>2. PICK k \in 1 .. delta : x = Fresh(k)
    BY <1>13 DEF Joining
  <2>3. PICK a \in first .. last : ids[index] = ids[a + 1]
    BY <2>1 DEF Along
  <2>4. PICK b \in first .. last : ids[index + 1] = ids[b + 1]
    BY <2>1 DEF Along
  <2>5. index = a + 1 /\ index + 1 = b + 1
    <3>1. {a + 1, b + 1, index, index + 1} \subseteq 1 .. len
      BY <2>1, <1>6
    <3> QED BY <3>1, <2>3, <2>4, <1>8
  <2>6. index + k - 1 \in f .. l /\ index + k - 1 + 1 = index + k
    <3>1. first < index /\ index <= last /\ delta > 0
      BY <2>5, <2>1, <1>6
    <3>2. f = first /\ l = last + delta
      BY <3>1, <1>10
    <3> QED BY <3>1, <3>2, <1>6
  <2>7. x = new[index + k]
    BY <2>2, <1>7
  <2> QED BY <2>6, <2>7 DEF Along
<1>14. f \in 0 .. Len(new) - 1 /\ l \in 0 .. Len(new) - 1
  BY <1>6, <1>7, <1>10
<1>15. Along(new, f, l) = (Along(ids, first, last) \ Lost(ids, index, delta))
                             \cup Joining(ids, Along(ids, first, last), index, delta)
  BY <1>11, <1>12, <1>13
<1> QED BY <1>1, <1>2, <1>3, <1>4, <1>14, <1>15

\* Nothing is left of a range whose lines are all deleted.
LEMMA RangeLost ==
    ASSUME LinesOK, NEW s, NEW axis, NEW index, NEW delta, Fits(s, axis, index, delta),
           NEW first \in Nat, NEW last \in Nat, delta < 0,
           \A line \in first .. last : ~ Survives(line, index, delta)
    PROVE  LET ids   == lines[s][axis]
               reach == Along(ids, first, last)
           IN  (reach \ Lost(ids, index, delta)) \cup Joining(ids, reach, index, delta) = {}
<1>1. PICK ids : ids = lines[s][axis]
  OBVIOUS
<1>2. index \in Nat /\ delta \in Int
  <2>1. ids \in Seq(Ids)
    BY <1>1 DEF LinesOK, Fits
  <2>2. Len(ids) \in Nat
    BY <2>1, LenProperties
  <2> QED BY <2>2, <1>1 DEF Fits
<1>3. ASSUME NEW i \in first .. last PROVE ids[i + 1] \in Lost(ids, index, delta)
  <2>1. i \in Nat /\ ~ Survives(i, index, delta)
    BY <1>3
  <2>2. i \in Deleted(index, delta)
    BY <2>1, <1>2, ShiftedLines
  <2>3. i + 1 \in index + 1 .. index - delta
    BY <2>1, <2>2, <1>2 DEF Deleted
  <2> QED BY <2>3 DEF Lost
<1>4. {Fresh(k) : k \in 1 .. delta} = {}
  BY <1>2
<1>5. Joining(ids, Along(ids, first, last), index, delta) = {}
  BY <1>4 DEF Joining
<1> QED BY <1>1, <1>3, <1>5 DEF Along
-----------------------------------------------------------------------------
\* What an operand covers.

LEMMA OperandFields ==
    ASSUME NEW o, IsOperand(o), o.form # "error"
    PROVE  /\ o \in [form : {"cell", "range", "spill"}, sheet : Sheets \cup {Own},
                     first : Refs, last : Refs]
           /\ o.form # "range" => o.first = o.last
           /\ \A axis \in Axes : o.first[axis] \in Int /\ o.last[axis] \in Int
           /\ o # RefError
<1>1. /\ o \in [form : {"cell", "range", "spill"}, sheet : Sheets \cup {Own},
                first : Refs, last : Refs]
      /\ o.form # "range" => o.first = o.last
  BY DEF IsOperand, RefError, Refs
<1>2. \A axis \in Axes : o.first[axis] \in Int /\ o.last[axis] \in Int
  BY <1>1 DEF Refs, Axes
<1> QED BY <1>1, <1>2 DEF RefError

LEMMA RegionFields ==
    ASSUME NEW o, Region(o)
    PROVE  /\ o \in [form : {"cell", "range"}, sheet : Sheets \cup {Own},
                     first : Refs, last : Refs]
           /\ o.form = "cell" => o.first = o.last
           /\ \A axis \in Axes : o.first[axis] \in Int /\ o.last[axis] \in Int
           /\ o # RefError /\ o.form # "error"
<1>1. o.form \in {"cell", "range"} /\ o.form # "error"
  BY DEF Region, IsRegion
<1>2. IsOperand(o)
  BY DEF Region
<1> QED BY <1>1, <1>2, OperandFields

\* The same operand with other corners on one axis.
Cornered(o, axis, f, l) == [o EXCEPT !.first[axis] = f, !.last[axis] = l]

LEMMA RegionExcept ==
    ASSUME NEW o, Region(o), NEW axis \in Axes, NEW f \in Int, NEW l \in Int,
           o.form = "cell" => f = l
    PROVE  LET new == Cornered(o, axis, f, l)
           IN  /\ Region(new) /\ new.sheet = o.sheet /\ new.form = o.form
               /\ new.first[axis] = f /\ new.last[axis] = l
               /\ \A other \in Axes \ {axis} : /\ new.first[other] = o.first[other]
                                               /\ new.last[other] = o.last[other]
<1> DEFINE new == Cornered(o, axis, f, l)
<1>1. /\ o \in [form : {"cell", "range"}, sheet : Sheets \cup {Own}, first : Refs, last : Refs]
      /\ o.form = "cell" => o.first = o.last
  BY RegionFields
<1>2. /\ new \in [form : {"cell", "range"}, sheet : Sheets \cup {Own}, first : Refs, last : Refs]
      /\ new.sheet = o.sheet /\ new.form = o.form
      /\ new.first = [o.first EXCEPT ![axis] = f] /\ new.last = [o.last EXCEPT ![axis] = l]
  BY <1>1 DEF Refs, Axes, Cornered
<1>3. /\ new.first[axis] = f /\ new.last[axis] = l
      /\ \A other \in Axes \ {axis} : /\ new.first[other] = o.first[other]
                                      /\ new.last[other] = o.last[other]
  BY <1>1 DEF Refs, Axes, Cornered
<1>4. new.form = "cell" => new.first = new.last
  BY <1>1, <1>2
<1> HIDE DEF new
<1>5. Region(new)
  <2>1. new.form \in {"cell", "range"} /\ (new.form # "range" => new.first = new.last)
    BY <1>2, <1>4
  <2>2. new \in [form : {"cell", "range", "spill"}, sheet : Sheets \cup {Own},
                 first : Refs, last : Refs]
    BY <1>2
  <2> QED BY <2>1, <2>2 DEF Region, IsRegion, IsOperand, Refs
<1> QED BY <1>2, <1>3, <1>5 DEF new

\* What an edit makes of a region of the edited sheet: #REF! when all its lines
\* are deleted, otherwise the region between the clamped ends.
LEMMA AdjustedRegion ==
    ASSUME NEW o, Region(o), InOrder(o), NEW own, NEW edited, TargetSheet(o, own) = edited,
           NEW axis \in Axes, o.first[axis] \in Nat, o.last[axis] \in Nat,
           NEW index \in Nat, NEW delta \in Int
    PROVE  LET new == AdjustOperand(o, own, edited, axis, index, delta)
               f   == ClampFirst(o.first[axis], index, delta)
               l   == ClampLast(o.last[axis], index, delta)
           IN  \/ /\ new = RefError
                  /\ delta < 0
                  /\ \A line \in o.first[axis] .. o.last[axis] : ~ Survives(line, index, delta)
               \/ /\ f <= l /\ f \in Nat /\ l \in Nat
                  /\ o.form = "cell" => f = l
                  /\ new = Cornered(o, axis, f, l)
<1> DEFINE new == AdjustOperand(o, own, edited, axis, index, delta)
           a   == o.first[axis]
           b   == o.last[axis]
           f   == ClampFirst(a, index, delta)
           l   == ClampLast(b, index, delta)
<1>1. /\ o.form \in {"cell", "range"} /\ (o.form = "cell" => a = b) /\ a <= b
      /\ a \in Nat /\ b \in Nat
  <2>1. o.form \in {"cell", "range"} /\ (o.form = "cell" => o.first = o.last)
    BY RegionFields
  <2> QED BY <2>1 DEF InOrder
<1>2. f \in Nat /\ l \in Int /\ (delta >= 0 => f <= l) /\ (f <= l => l \in Nat)
  BY <1>1 DEF ClampFirst, ClampLast, ShiftCoord, Gone
<1>3. CASE o.form = "cell"
  <2>1. new = AdjustReference(o, axis, index, delta) /\ a = b
    BY <1>1, <1>3 DEF AdjustOperand, IsRegion
  <2>2. CASE Survives(a, index, delta)
    <3>1. f = ShiftCoord(a, index, delta) /\ l = ShiftCoord(a, index, delta)
      BY <2>1, <2>2 DEF ClampFirst, ClampLast, Survives
    <3>2. new = Cornered(o, axis, f, l)
      BY <2>1, <2>2, <3>1 DEF AdjustReference, Survives, Cornered
    <3>3. f = l /\ f <= l
      BY <3>1, <1>2
    <3> QED BY <3>2, <3>3, <1>2
  <2>3. CASE ~ Survives(a, index, delta)
    <3>1. new = RefError
      BY <2>1, <2>3 DEF AdjustReference, Survives
    <3>2. delta < 0
      BY <2>3, <1>1, ShiftedLines
    <3>3. \A line \in a .. b : ~ Survives(line, index, delta)
      <4> TAKE line \in a .. b
      <4>1. line = a
        BY <1>1, <2>1
      <4> QED BY <4>1, <2>3
    <3> QED BY <3>1, <3>2, <3>3
  <2> QED BY <2>2, <2>3
<1>4. CASE o.form = "range"
  <2>1. new = AdjustRange(o, axis, index, delta)
    BY <1>4 DEF AdjustOperand, IsRegion
  <2>2. CASE delta < 0 /\ f > l
    <3>1. new = RefError
      BY <2>1, <2>2 DEF AdjustRange
    <3>2. \A line \in a .. b : ~ Survives(line, index, delta)
      BY <2>2, <1>1, RangeVanishes
    <3> QED BY <3>1, <3>2, <2>2
  <2>3. CASE ~ (delta < 0 /\ f > l)
    <3>1. new = Cornered(o, axis, f, l)
      BY <2>1, <2>3 DEF AdjustRange, Cornered
    <3>2. f <= l
      BY <2>3, <1>2
    <3> QED BY <3>1, <3>2, <1>2, <1>4
  <2> QED BY <2>2, <2>3
<1> QED BY <1>1, <1>3, <1>4

\* Whatever an edit makes of an operand is an operand, of the same sheet, and a
\* region stays one, unless it is #REF!.
LEMMA AdjustedOperand ==
    ASSUME NEW o, IsOperand(o), NEW own, NEW edited,
           NEW axis \in Axes, NEW index \in Nat, NEW delta \in Int
    PROVE  LET new == AdjustOperand(o, own, edited, axis, index, delta)
           IN  /\ IsOperand(new)
               /\ new.form # "error" => o.form # "error" /\ new.sheet = o.sheet
               /\ new = RefError <=> new.form = "error"
               /\ Region(o) => new = RefError \/ Region(new)
<1> DEFINE new == AdjustOperand(o, own, edited, axis, index, delta)
<1>0. IsOperand(RefError) /\ RefError.form = "error"
  BY DEF IsOperand, RefError
<1>1. CASE o.form = "error"
  <2>1. o = RefError
    BY <1>1 DEF IsOperand
  <2>2. new = o
    BY <1>1 DEF AdjustOperand
  <2>3. ~ Region(o)
    BY <1>1 DEF Region, IsRegion
  <2> QED BY <2>1, <2>2, <2>3, <1>0, <1>1
<1>2. CASE o.form = "spill"
  <2>1. new = [o EXCEPT !.form = "cell"]
    BY <1>2 DEF AdjustOperand, IsRegion
  <2>2. /\ o \in [form : {"cell", "range", "spill"}, sheet : Sheets \cup {Own},
                  first : Refs, last : Refs]
        /\ o.first = o.last
    BY <1>2, OperandFields
  <2>3. /\ new \in [form : {"cell", "range", "spill"}, sheet : Sheets \cup {Own},
                    first : Refs, last : Refs]
        /\ new.first = new.last /\ new.form = "cell" /\ new.sheet = o.sheet
    BY <2>1, <2>2
  <2>4. ~ Region(o)
    BY <1>2 DEF Region, IsRegion
  <2>5. IsOperand(new)
    BY <2>3 DEF IsOperand, Refs
  <2> HIDE DEF new
  <2>6. new # RefError
    BY <2>3, <1>0
  <2> QED BY <2>3, <2>4, <2>5, <2>6, <1>2 DEF new
<1>3. CASE o.form \in {"cell", "range"} /\ TargetSheet(o, own) # edited
  <2>1. new = o
    BY <1>3 DEF AdjustOperand, IsRegion
  <2>2. o # RefError
    BY <1>0, <1>3
  <2> QED BY <2>1, <2>2, <1>3
<1>4. CASE o.form \in {"cell", "range"} /\ TargetSheet(o, own) = edited
  <2>1. Region(o)
    BY <1>4 DEF Region, IsRegion
  <2>2. \/ new = RefError
        \/ \E f, l \in Int : /\ o.form = "cell" => f = l
                             /\ new = Cornered(o, axis, f, l)
    <3>1. o.first[axis] \in Int /\ o.last[axis] \in Int
      BY <2>1, RegionFields
    <3>2. ASSUME NEW c \in Int
          PROVE  /\ ShiftCoord(c, index, delta) \in Int
                 /\ ClampFirst(c, index, delta) \in Int /\ ClampLast(c, index, delta) \in Int
      BY DEF ShiftCoord, ClampFirst, ClampLast, Gone
    <3>3. CASE o.form = "cell"
      <4>1. new = AdjustReference(o, axis, index, delta)
        BY <1>4, <3>3 DEF AdjustOperand, IsRegion
      <4> QED BY <4>1, <3>1, <3>2 DEF AdjustReference, Cornered
    <3>4. CASE o.form = "range"
      <4>1. new = AdjustRange(o, axis, index, delta)
        BY <1>4, <3>4 DEF AdjustOperand, IsRegion
      <4> QED BY <4>1, <3>1, <3>2, <3>4 DEF AdjustRange, Cornered
    <3> QED BY <1>4, <3>3, <3>4
  <2>3. CASE new = RefError
    BY <2>3, <1>0, <1>4
  <2>4. CASE new # RefError
    <3>1. PICK f \in Int, l \in Int : /\ o.form = "cell" => f = l
                                      /\ new = Cornered(o, axis, f, l)
      BY <2>2, <2>4
    <3> HIDE DEF new
    <3>2. Region(new) /\ new.sheet = o.sheet /\ new.form = o.form
      BY <3>1, <2>1, RegionExcept
    <3> QED BY <3>2, <2>4, <1>4 DEF Region, new
  <2> QED BY <2>3, <2>4
<1> QED
  <2>1. o.form \in {"error", "spill", "cell", "range"}
    BY DEF IsOperand, RefError
  <2> QED BY <2>1, <1>1, <1>2, <1>3, <1>4
-----------------------------------------------------------------------------
\* Covered and Within for the lines ls of a sheet.

CoveredIn(ls, o) ==
    [axis \in Axes |-> {ls[axis][i + 1] :
        i \in Span(o.first[axis], o.last[axis]) \cap 0 .. Len(ls[axis]) - 1}]

WithinIn(ls, o) ==
    o.form # "error" =>
    \A axis \in Axes : {o.first[axis], o.last[axis]} \subseteq 0 .. Len(ls[axis]) - 1

\* What an operand has become, and what it ought to cover.
Outcome(new, ls, means) ==
    IF new.form = "error" THEN Vanished(means)
    ELSE /\ Region(new) /\ InOrder(new) /\ WithinIn(ls, new)
         /\ means = CoveredIn(ls, new)
         /\ ~ Vanished(means)

\* A region with its corners in order covers what lies between them, which is
\* something.
LEMMA CoveredAlong ==
    ASSUME NEW ls \in [Axes -> Seq(Ids)], NEW o, Region(o), InOrder(o), WithinIn(ls, o)
    PROVE  /\ \A axis \in Axes :
                 /\ Len(ls[axis]) \in Nat
                 /\ o.first[axis] \in 0 .. Len(ls[axis]) - 1
                 /\ o.last[axis] \in o.first[axis] .. Len(ls[axis]) - 1
                 /\ CoveredIn(ls, o)[axis] = Along(ls[axis], o.first[axis], o.last[axis])
           /\ CoveredIn(ls, o) \in [Axes -> SUBSET Ids]
           /\ ~ Vanished(CoveredIn(ls, o))
<1>1. ASSUME NEW axis \in Axes
      PROVE  /\ Len(ls[axis]) \in Nat
             /\ o.first[axis] \in 0 .. Len(ls[axis]) - 1
             /\ o.last[axis] \in o.first[axis] .. Len(ls[axis]) - 1
             /\ CoveredIn(ls, o)[axis] = Along(ls[axis], o.first[axis], o.last[axis])
             /\ CoveredIn(ls, o)[axis] \in SUBSET Ids
             /\ CoveredIn(ls, o)[axis] # {}
  <2>1. PICK ids : ids = ls[axis]
    OBVIOUS
  <2>2. ids \in Seq(Ids) /\ Len(ids) \in Nat
    BY <2>1, LenProperties
  <2>3. PICK a, b : a = o.first[axis] /\ b = o.last[axis]
    OBVIOUS
  <2>4. a \in Int /\ b \in Int /\ o.form # "error"
    BY <2>3, RegionFields
  <2>5. a <= b /\ a \in 0 .. Len(ids) - 1 /\ b \in 0 .. Len(ids) - 1
    BY <2>1, <2>3, <2>4 DEF InOrder, WithinIn
  <2>6. Span(a, b) \cap 0 .. Len(ids) - 1 = a .. b
    BY <2>2, <2>5 DEF Span
  <2>7. CoveredIn(ls, o)[axis] = Along(ids, a, b)
    BY <2>1, <2>3, <2>6 DEF CoveredIn, Along
  <2>8. \A i \in a .. b : ids[i + 1] \in Ids
    <3> TAKE i \in a .. b
    <3>1. i + 1 \in 1 .. Len(ids)
      BY <2>2, <2>5
    <3> QED BY <3>1, <2>2, ElementOfSeq
  <2>9. a \in a .. b
    BY <2>5
  <2>10. Along(ids, a, b) \subseteq Ids /\ Along(ids, a, b) # {}
    BY <2>8, <2>9 DEF Along
  <2>11. b \in a .. Len(ids) - 1
    BY <2>5, <2>2
  <2> QED BY <2>1, <2>2, <2>3, <2>5, <2>7, <2>10, <2>11
<1>2. CoveredIn(ls, o) \in [Axes -> SUBSET Ids]
  <2>1. CoveredIn(ls, o) = [axis \in Axes |-> CoveredIn(ls, o)[axis]]
    BY DEF CoveredIn
  <2> QED BY <2>1, <1>1
<1> QED BY <1>1, <1>2 DEF Vanished

\* What Reach does, axis by axis.
LEMMA Reached ==
    ASSUME NEW means \in [Axes -> SUBSET Ids], NEW s, NEW axis \in Axes,
           NEW index, NEW delta, LinesOK, Fits(s, axis, index, delta)
    PROVE  LET new == Reach(means, s, axis, index, delta)
           IN  /\ new \in [Axes -> SUBSET Ids]
               /\ new[axis] = (means[axis] \ Lost(lines[s][axis], index, delta))
                                 \cup Joining(lines[s][axis], means[axis], index, delta)
               /\ \A other \in Axes \ {axis} : new[other] = means[other]
               /\ Vanished(means) => Vanished(new)
<1> DEFINE new  == Reach(means, s, axis, index, delta)
           ids  == lines[s][axis]
           part == (means[axis] \ Lost(ids, index, delta))
                      \cup Joining(ids, means[axis], index, delta)
<1>1. delta \in Int /\ steps \in Nat
  BY DEF LinesOK, Fits
<1>2. \A k \in 1 .. delta : Fresh(k) \in Ids
  BY <1>1 DEF Fresh, Ids
<1>3. part \in SUBSET Ids
  BY <1>2 DEF Joining
<1>4. new = [means EXCEPT ![axis] = part]
  BY DEF Reach, Lost, Joining
<1> HIDE DEF part, new
<1>5. /\ new \in [Axes -> SUBSET Ids] /\ new[axis] = part
      /\ \A other \in Axes \ {axis} : new[other] = means[other]
  BY <1>3, <1>4
<1>6. means[axis] = {} => part = {}
  BY DEF part, Joining
<1>7. Vanished(means) => Vanished(new)
  BY <1>5, <1>6 DEF Vanished
<1> QED BY <1>5, <1>7 DEF new, part

\* The lines of sheet s after an edit of it.
LinesAfter(s, axis, index, delta) == [lines[s] EXCEPT ![axis] = NewLines(s, axis, index, delta)]

\* A region of the edited sheet follows its lines.
LEMMA RegionFollows ==
    ASSUME LinesOK, NEW s, NEW axis, NEW index, NEW delta, Fits(s, axis, index, delta),
           NEW o, Region(o), InOrder(o), WithinIn(lines[s], o),
           NEW own, TargetSheet(o, own) = s
    PROVE  Outcome(AdjustOperand(o, own, s, axis, index, delta),
                   LinesAfter(s, axis, index, delta),
                   Reach(CoveredIn(lines[s], o), s, axis, index, delta))
<1>1. PICK new : new = AdjustOperand(o, own, s, axis, index, delta)
  OBVIOUS
<1>2. PICK made : made = NewLines(s, axis, index, delta)
  OBVIOUS
<1>3. PICK ls : ls = [lines[s] EXCEPT ![axis] = made]
  OBVIOUS
<1>4. PICK means : means = CoveredIn(lines[s], o)
  OBVIOUS
<1>5. PICK due : due = Reach(means, s, axis, index, delta)
  OBVIOUS
<1>6. PICK ids : ids = lines[s][axis]
  OBVIOUS
<1>7. /\ axis \in Axes /\ lines[s] \in [Axes -> Seq(Ids)]
      /\ delta \in Int /\ index \in 0 .. Len(ids)
  BY <1>6 DEF LinesOK, Fits
<1>8. /\ \A other \in Axes :
            /\ Len(lines[s][other]) \in Nat
            /\ o.first[other] \in 0 .. Len(lines[s][other]) - 1
            /\ o.last[other] \in o.first[other] .. Len(lines[s][other]) - 1
            /\ means[other] = Along(lines[s][other], o.first[other], o.last[other])
      /\ means \in [Axes -> SUBSET Ids]
  BY <1>4, <1>7, CoveredAlong
<1>9. PICK a, b : a = o.first[axis] /\ b = o.last[axis]
  OBVIOUS
<1>10. /\ Len(ids) \in Nat /\ index \in Nat /\ a \in 0 .. Len(ids) - 1 /\ b \in a .. Len(ids) - 1
       /\ means[axis] = Along(ids, a, b)
       /\ a \in Nat /\ b \in Nat
  BY <1>6, <1>7, <1>8, <1>9
<1>11. /\ due \in [Axes -> SUBSET Ids]
       /\ due[axis] = (Along(ids, a, b) \ Lost(ids, index, delta))
                         \cup Joining(ids, Along(ids, a, b), index, delta)
       /\ \A other \in Axes \ {axis} : due[other] = means[other]
  BY <1>5, <1>6, <1>7, <1>8, <1>10, Reached, SMTT(30)
<1>12. PICK f, l : f = ClampFirst(a, index, delta) /\ l = ClampLast(b, index, delta)
  OBVIOUS
<1>13. \/ /\ new = RefError
          /\ delta < 0
          /\ \A line \in a .. b : ~ Survives(line, index, delta)
       \/ /\ f <= l /\ f \in Nat /\ l \in Nat
          /\ o.form = "cell" => f = l
          /\ new = Cornered(o, axis, f, l)
  <2>1. o.first[axis] \in Nat /\ o.last[axis] \in Nat /\ axis \in Axes
    BY <1>7, <1>9, <1>10
  <2>2. LET n == AdjustOperand(o, own, s, axis, index, delta)
            x == ClampFirst(o.first[axis], index, delta)
            y == ClampLast(o.last[axis], index, delta)
        IN  \/ /\ n = RefError
               /\ delta < 0
               /\ \A line \in o.first[axis] .. o.last[axis] : ~ Survives(line, index, delta)
            \/ /\ x <= y /\ x \in Nat /\ y \in Nat
               /\ o.form = "cell" => x = y
               /\ n = Cornered(o, axis, x, y)
    BY <2>1, <1>7, <1>10, AdjustedRegion
  <2> QED BY <2>2, <1>1, <1>9, <1>12
<1>14. CASE /\ new = RefError
            /\ delta < 0
            /\ \A line \in a .. b : ~ Survives(line, index, delta)
  <2>1. due[axis] = {}
    BY <1>6, <1>10, <1>11, <1>14, RangeLost
  <2>2. Vanished(due)
    BY <2>1, <1>7 DEF Vanished
  <2>3. new.form = "error"
    BY <1>14 DEF RefError
  <2> QED BY <2>2, <2>3, <1>1, <1>2, <1>3, <1>4, <1>5 DEF Outcome, LinesAfter
<1>15. CASE /\ f <= l /\ f \in Nat /\ l \in Nat
            /\ o.form = "cell" => f = l
            /\ new = Cornered(o, axis, f, l)
  <2>1. /\ Region(new) /\ new.first[axis] = f /\ new.last[axis] = l
        /\ \A other \in Axes \ {axis} : /\ new.first[other] = o.first[other]
                                        /\ new.last[other] = o.last[other]
    <3>1. f \in Int /\ l \in Int
      BY <1>15
    <3> QED BY <3>1, <1>7, <1>15, RegionExcept
  <2>2. /\ f \in 0 .. Len(made) - 1 /\ l \in 0 .. Len(made) - 1
        /\ Along(made, f, l) = due[axis]
    BY <1>2, <1>6, <1>10, <1>11, <1>12, <1>15, RangeFollows, SMTT(30)
  <2>3. /\ ls \in [Axes -> Seq(Ids)] /\ ls[axis] = made
        /\ \A other \in Axes \ {axis} : ls[other] = lines[s][other]
    <3>1. made \in Seq(Ids)
      BY <1>2, NewLinesElements
    <3> QED BY <3>1, <1>3, <1>7
  <2>4. new.form # "error" /\ InOrder(new)
    <3>1. new.form # "error" /\ IsRegion(new)
      BY <2>1, RegionFields DEF Region
    <3>2. \A other \in Axes \ {axis} : o.first[other] <= o.last[other]
      <4>1. o.form # "error"
        BY RegionFields
      <4> QED BY <4>1 DEF InOrder
    <3> QED BY <3>1, <3>2, <2>1, <1>7, <1>15 DEF InOrder
  <2>5. WithinIn(ls, new)
    <3> SUFFICES ASSUME NEW other \in Axes
                 PROVE  {new.first[other], new.last[other]} \subseteq 0 .. Len(ls[other]) - 1
      BY DEF WithinIn
    <3>1. CASE other = axis
      BY <3>1, <2>1, <2>2, <2>3
    <3>2. CASE other # axis
      <4>1. o.last[other] \in 0 .. Len(lines[s][other]) - 1
        BY <1>8
      <4> QED BY <4>1, <3>2, <2>1, <2>3, <1>8
    <3> QED BY <3>1, <3>2
  <2>6. /\ CoveredIn(ls, new) \in [Axes -> SUBSET Ids]
        /\ \A other \in Axes :
              CoveredIn(ls, new)[other] = Along(ls[other], new.first[other], new.last[other])
        /\ ~ Vanished(CoveredIn(ls, new))
    BY <2>1, <2>3, <2>4, <2>5, CoveredAlong
  <2>7. \A other \in Axes : due[other] = CoveredIn(ls, new)[other]
    <3> TAKE other \in Axes
    <3>1. CASE other = axis
      BY <3>1, <2>1, <2>2, <2>3, <2>6
    <3>2. CASE other # axis
      BY <3>2, <2>1, <2>3, <2>6, <1>8, <1>11
    <3> QED BY <3>1, <3>2
  <2>8. due = CoveredIn(ls, new)
    BY <2>6, <2>7, <1>11
  <2>9. Outcome(new, ls, due)
    BY <2>1, <2>4, <2>5, <2>6, <2>8 DEF Outcome
  <2> QED BY <2>9, <1>1, <1>2, <1>3, <1>4, <1>5 DEF LinesAfter
<1> QED BY <1>13, <1>14, <1>15
-----------------------------------------------------------------------------
\* Inserting and deleting lines keeps the invariant.

\* The lines after the edit.
Edited(s, axis, index, delta) ==
    /\ Fits(s, axis, index, delta)
    /\ steps' = steps + 1
    /\ lines' = [lines EXCEPT ![s][axis] = NewLines(s, axis, index, delta)]

LEMMA EditedLines ==
    ASSUME LinesOK, NEW s, NEW axis, NEW index, NEW delta, Edited(s, axis, index, delta)
    PROVE  /\ lines'[s] = LinesAfter(s, axis, index, delta)
           /\ \A t \in Sheets \ {s} : lines'[t] = lines[t]
           /\ s \in Sheets /\ axis \in Axes /\ index \in Nat /\ delta \in Int
<1>1. lines \in [Sheets -> [Axes -> Seq(Ids)]]
  BY DEF LinesOK
<1>2. s \in Sheets /\ axis \in Axes /\ delta \in Int /\ index \in 0 .. Len(lines[s][axis])
  BY DEF Edited, Fits
<1>3. index \in Nat
  <2>1. lines[s][axis] \in Seq(Ids)
    BY <1>1, <1>2
  <2>2. Len(lines[s][axis]) \in Nat
    BY <2>1, LenProperties
  <2> QED BY <2>2, <1>2
<1> QED BY <1>1, <1>2, <1>3 DEF Edited, LinesAfter

\* The identities are still each line's own.
LEMMA EditedLinesOK ==
    ASSUME LinesOK, NEW s, NEW axis, NEW index, NEW delta, Edited(s, axis, index, delta)
    PROVE  LinesOK'
<1>1. PICK new : new = NewLines(s, axis, index, delta)
  OBVIOUS
<1>2. PICK ids : ids = lines[s][axis]
  OBVIOUS
<1>3. PICK len : len = Len(ids)
  OBVIOUS
<1>4. /\ s \in Sheets /\ axis \in Axes /\ index \in Nat /\ delta \in Int
      /\ lines'[s] = [lines[s] EXCEPT ![axis] = new]
      /\ \A t \in Sheets \ {s} : lines'[t] = lines[t]
  BY <1>1, EditedLines, SMTT(30) DEF LinesAfter
<1>5. /\ lines \in [Sheets -> [Axes -> Seq(Ids)]] /\ steps \in Nat /\ steps' = steps + 1
  BY DEF LinesOK, Edited
<1>6. /\ len \in Nat /\ index <= len /\ (delta < 0 => index - delta <= len)
      /\ \A i \in 1 .. len : ids[i][1] \in Nat /\ ids[i][1] <= steps
      /\ \A i, j \in 1 .. len : ids[i] = ids[j] => i = j
  <2>1. ids \in Seq(Ids)
    BY <1>2, <1>4, <1>5
  <2>2. len \in Nat /\ \A i \in 1 .. len : ids[i] \in Ids
    BY <2>1, <1>3, LenProperties, ElementOfSeq
  <2>3. \A i \in 1 .. len : ids[i][1] \in Nat
    BY <2>2 DEF Ids
  <2>4. \A i \in 1 .. len : /\ ids[i][1] <= steps
                            /\ \A j \in 1 .. len : ids[i] = ids[j] => i = j
    BY <1>2, <1>3, <1>4 DEF LinesOK
  <2>5. index \in 0 .. len /\ (delta < 0 => index - delta <= len)
    BY <1>2, <1>3 DEF Edited, Fits
  <2> QED BY <2>2, <2>3, <2>4, <2>5
<1>7. /\ new \in Seq(Ids) /\ Len(new) = len + delta
      /\ \A j \in 1 .. Len(new) :
            new[j] = IF j <= index THEN ids[j]
                     ELSE IF j <= index + delta THEN Fresh(j - index) ELSE ids[j - delta]
  <2>1. Fits(s, axis, index, delta)
    BY DEF Edited
  <2> QED BY <2>1, <1>1, <1>2, <1>3, NewLinesElements
<1>8. lines' \in [Sheets -> [Axes -> Seq(Ids)]]
  BY <1>1, <1>4, <1>5, <1>7 DEF Edited
<1>9. ASSUME NEW j \in 1 .. Len(new)
      PROVE  \/ /\ j \in index + 1 .. index + delta /\ new[j] = <<steps + 1, j - index>>
             \/ /\ ~ (j \in index + 1 .. index + delta)
                /\ \E i \in 1 .. len : new[j] = ids[i] /\ i = IF j <= index THEN j ELSE j - delta
  <2>1. j \in Int /\ 1 <= j /\ j <= len + delta
    BY <1>4, <1>6, <1>7
  <2>2. CASE j <= index
    <3>1. j \in 1 .. len /\ ~ (j \in index + 1 .. index + delta)
      BY <2>1, <2>2, <1>4, <1>6
    <3> QED BY <3>1, <2>2, <1>7
  <2>3. CASE ~ (j <= index) /\ j <= index + delta
    <3>1. j \in index + 1 .. index + delta
      BY <2>1, <2>3, <1>4, <1>6
    <3> QED BY <3>1, <2>3, <1>7 DEF Fresh
  <2>4. CASE ~ (j <= index) /\ ~ (j <= index + delta)
    <3>1. j - delta \in 1 .. len /\ ~ (j \in index + 1 .. index + delta)
      BY <2>1, <2>4, <1>4, <1>6
    <3> QED BY <3>1, <2>4, <1>7
  <2> QED BY <2>2, <2>3, <2>4
<1>10. ASSUME NEW j \in 1 .. Len(new)
       PROVE  new[j][1] <= steps'
  <2>1. CASE new[j] = <<steps + 1, j - index>>
    BY <2>1, <1>5
  <2>2. CASE \E i \in 1 .. len : new[j] = ids[i]
    BY <2>2, <1>5, <1>6
  <2> QED BY <2>1, <2>2, <1>9
<1>11. ASSUME NEW j \in 1 .. Len(new), NEW k \in 1 .. Len(new), new[j] = new[k]
       PROVE  j = k
  <2>0. j \in Int /\ k \in Int
    BY <1>4, <1>6, <1>7
  <2>1. CASE new[j] = <<steps + 1, j - index>> /\ new[k] = <<steps + 1, k - index>>
    BY <2>0, <2>1, <1>4, <1>11
  <2>2. CASE \E i \in 1 .. len : new[j] = ids[i] /\ new[k] = <<steps + 1, k - index>>
    <3>1. PICK i \in 1 .. len : ids[i] = <<steps + 1, k - index>>
      BY <2>2, <1>11
    <3>2. ids[i][1] = steps + 1
      BY <3>1
    <3> QED BY <3>2, <1>5, <1>6
  <2>3. CASE \E i \in 1 .. len : new[k] = ids[i] /\ new[j] = <<steps + 1, j - index>>
    <3>1. PICK i \in 1 .. len : ids[i] = <<steps + 1, j - index>>
      BY <2>3, <1>11
    <3>2. ids[i][1] = steps + 1
      BY <3>1
    <3> QED BY <3>2, <1>5, <1>6
  <2>4. CASE /\ ~ (j \in index + 1 .. index + delta) /\ ~ (k \in index + 1 .. index + delta)
             /\ \E i \in 1 .. len : new[j] = ids[i] /\ i = IF j <= index THEN j ELSE j - delta
             /\ \E i \in 1 .. len : new[k] = ids[i] /\ i = IF k <= index THEN k ELSE k - delta
    <3>1. PICK a \in 1 .. len : new[j] = ids[a] /\ a = IF j <= index THEN j ELSE j - delta
      BY <2>4
    <3>2. PICK b \in 1 .. len : new[k] = ids[b] /\ b = IF k <= index THEN k ELSE k - delta
      BY <2>4
    <3>3. a = b
      BY <3>1, <3>2, <1>6, <1>11
    <3> QED BY <3>1, <3>2, <3>3, <2>0, <2>4, <1>4
  <2> QED BY <2>1, <2>2, <2>3, <2>4, <1>9
<1>12. ASSUME NEW t \in Sheets, NEW other \in Axes, NEW i \in 1 .. Len(lines'[t][other])
       PROVE  /\ lines'[t][other][i][1] <= steps'
              /\ \A j \in 1 .. Len(lines'[t][other]) :
                    lines'[t][other][i] = lines'[t][other][j] => i = j
  <2>1. CASE t = s /\ other = axis
    <3>1. lines'[t][other] = new
      BY <2>1, <1>4, <1>5
    <3> QED BY <3>1, <1>10, <1>11
  <2>2. CASE ~ (t = s /\ other = axis)
    <3>1. lines'[t][other] = lines[t][other]
      BY <2>2, <1>4, <1>5
    <3>2. /\ lines[t][other][i][1] <= steps
          /\ \A j \in 1 .. Len(lines[t][other]) : lines[t][other][i] = lines[t][other][j] => i = j
      BY <3>1 DEF LinesOK
    <3>3. lines[t][other][i][1] \in Nat
      <4>1. lines[t][other] \in Seq(Ids)
        BY <1>5
      <4>2. lines[t][other][i] \in Ids
        BY <4>1, <3>1, ElementOfSeq
      <4> QED BY <4>2 DEF Ids
    <3> QED BY <3>1, <3>2, <3>3, <1>5
  <2> QED BY <2>1, <2>2
<1>13. steps' \in Nat
  BY <1>5
<1> QED BY <1>8, <1>12, <1>13 DEF LinesOK

LEMMA CoveredNow ==
    ASSUME NEW t, NEW o
    PROVE  /\ Covered(t, o) = CoveredIn(lines[t], o) /\ (Within(t, o) <=> WithinIn(lines[t], o))
           /\ Covered(t, o)' = CoveredIn(lines'[t], o) /\ (Within(t, o)' <=> WithinIn(lines'[t], o))
BY DEF Covered, CoveredIn, Within, WithinIn

LEMMA FormulaFields ==
    ASSUME NEW c \in Content
    PROVE  /\ c.kind = "formula" => c \in Formulas
           /\ c \in Formulas =>
                 /\ c.kind = "formula" /\ IsOperand(c.operand) /\ c.inOrder \in BOOLEAN
                 /\ c.means \in [Axes -> SUBSET Ids]
           /\ c # Empty => c.kind # "empty"
<1>1. c \in Formulas => c.kind = "formula" /\ IsOperand(c.operand) /\ c.inOrder \in BOOLEAN
                        /\ c.means \in [Axes -> SUBSET Ids]
  BY DEF Formulas
<1>2. c = Empty => c.kind = "empty"
  BY DEF Empty
<1>3. c \in Plains => c.kind = "plain"
  BY DEF Plains
<1> QED BY <1>1, <1>2, <1>3 DEF Content

\* What Restructure makes of a content of sheet t.
Carried(c, t, s, axis, index, delta) ==
    LET new == Adjusted(c, t, s, axis, index, delta)
    IN  IF new.kind # "formula" THEN new
        ELSE [new EXCEPT !.means = IF TargetSheet(c.operand, t) = s
                                   THEN Reach(@, s, axis, index, delta) ELSE @]

\* A formula follows its lines.
LEMMA ContentFollows ==
    ASSUME LinesOK, NEW s, NEW axis, NEW index, NEW delta, Edited(s, axis, index, delta),
           NEW t \in Sheets, NEW c \in Sound(t), EditsAssumption
    PROVE  /\ Carried(c, t, s, axis, index, delta) \in Sound(t)'
           /\ Shown(Carried(c, t, s, axis, index, delta)) = Shown(c)
<1>1. c \in Content /\ Faithful(t, c)
  BY DEF Sound
<1>2. /\ lines'[s] = LinesAfter(s, axis, index, delta)
      /\ \A u \in Sheets \ {s} : lines'[u] = lines[u]
      /\ s \in Sheets /\ axis \in Axes /\ index \in Nat /\ delta \in Int
      /\ Fits(s, axis, index, delta)
  <2>1. Fits(s, axis, index, delta)
    BY DEF Edited
  <2> QED BY <2>1, EditedLines
<1>3. CASE c.kind # "formula"
  <2>1. Carried(c, t, s, axis, index, delta) = c
    BY <1>3 DEF Carried, Adjusted
  <2>2. Faithful(t, c)'
    BY <1>3 DEF Faithful
  <2> QED BY <1>1, <2>1, <2>2 DEF Sound
<1>4. CASE c.kind = "formula"
  <2>1. /\ c \in Formulas /\ IsOperand(c.operand) /\ c.inOrder \in BOOLEAN
        /\ c.means \in [Axes -> SUBSET Ids]
    BY <1>1, <1>4, FormulaFields
  <2>2. PICK o, n, u : /\ o = c.operand
                       /\ n = AdjustOperand(o, t, s, axis, index, delta)
                       /\ u = TargetSheet(o, t)
    OBVIOUS
  <2>3. PICK m : m = IF u = s THEN Reach(c.means, s, axis, index, delta) ELSE c.means
    OBVIOUS
  <2>4. PICK d : d = Carried(c, t, s, axis, index, delta)
    OBVIOUS
  <2>5. d = [kind |-> "formula", operand |-> n, inOrder |-> c.inOrder, means |-> m]
    <3>1. Adjusted(c, t, s, axis, index, delta) = [c EXCEPT !.operand = n]
      BY <1>4, <2>2 DEF Adjusted
    <3>2. c = [kind |-> "formula", operand |-> c.operand, inOrder |-> c.inOrder, means |-> c.means]
      BY <2>1 DEF Formulas
    <3>3. [c EXCEPT !.operand = n]
            = [kind |-> "formula", operand |-> n, inOrder |-> c.inOrder, means |-> c.means]
      BY <3>2
    <3> QED BY <2>2, <2>3, <2>4, <3>1, <3>3, ZenonT(30) DEF Carried
  <2>6. IsOperand(o) /\ IsOperand(n) /\ (n.form # "error" => o.form # "error" /\ n.sheet = o.sheet)
    BY <1>2, <2>1, <2>2, AdjustedOperand
  <2>7. /\ m \in [Axes -> SUBSET Ids]
        /\ Vanished(c.means) => Vanished(m)
    BY <1>2, <2>1, <2>3, Reached
  <2>8. d \in Content
    <3>1. n \in Tokens
      BY <2>6 DEF IsOperand, Tokens, Refs
    <3>2. d \in Formulas
      BY <2>1, <2>5, <2>6, <2>7, <3>1 DEF Formulas
    <3> QED BY <3>2 DEF Content
  <2>9. u \in Sheets
    <3>1. o.form = "error" => o.sheet = Own
      BY <2>6 DEF IsOperand, RefError
    <3>2. o.form # "error" => o.sheet \in Sheets \cup {Own}
      BY <2>6, OperandFields
    <3> QED BY <3>1, <3>2, <2>2 DEF TargetSheet
  <2>10. Faithful(t, d)'
    <3> SUFFICES ASSUME c.inOrder
                 PROVE  IF n.form = "error" THEN Vanished(m)
                        ELSE /\ InOrder(n)
                             /\ WithinIn(lines'[TargetSheet(n, t)], n)
                             /\ m = CoveredIn(lines'[TargetSheet(n, t)], n)
      <4>1. d.kind = "formula" /\ d.operand = n /\ d.inOrder = c.inOrder /\ d.means = m
        BY <2>5
      <4> HIDE DEF InOrder, Vanished
      <4> QED BY <4>1, CoveredNow DEF Faithful
    <3>1. CASE o.form = "error"
      <4>1. n = o /\ Vanished(c.means)
        BY <3>1, <1>1, <1>4, <2>2 DEF AdjustOperand, Faithful
      <4> QED BY <4>1, <3>1, <2>7
    <3>2. CASE o.form # "error"
      <4>1. /\ InOrder(o) /\ WithinIn(lines[u], o) /\ c.means = CoveredIn(lines[u], o)
        BY <3>2, <1>1, <1>4, <2>2, CoveredNow DEF Faithful
      <4>2. Region(o)
        BY <4>1, <3>2, <2>6 DEF Region, InOrder
      <4>3. CASE u = s
        <5>1. TargetSheet(o, t) = s
          BY <4>3, <2>2
        <5>2. Outcome(n, lines'[s], m)
          <6>1. WithinIn(lines[s], o) /\ InOrder(o) /\ Fits(s, axis, index, delta)
            BY <4>1, <4>3, <1>2
          <6>2. Outcome(AdjustOperand(o, t, s, axis, index, delta),
                        LinesAfter(s, axis, index, delta),
                        Reach(CoveredIn(lines[s], o), s, axis, index, delta))
            BY <4>2, <5>1, <6>1, RegionFollows
          <6>3. m = Reach(CoveredIn(lines[s], o), s, axis, index, delta)
            BY <4>1, <4>3, <2>3
          <6> QED BY <6>2, <6>3, <1>2, <2>2
        <5>3. n.form # "error" => TargetSheet(n, t) = s
          BY <2>2, <2>6, <4>3 DEF TargetSheet
        <5> QED BY <5>2, <5>3 DEF Outcome
      <4>4. CASE u # s
        <5>1. n = o /\ lines'[u] = lines[u] /\ m = c.means
          BY <4>2, <4>4, <2>2, <2>3, <2>9, <1>2, RegionFields DEF AdjustOperand, IsRegion
        <5> QED BY <5>1, <4>1, <3>2, <2>2
      <4> QED BY <4>3, <4>4
    <3> QED BY <3>1, <3>2
  <2>11. d \in Sound(t)'
    BY <2>8, <2>10 DEF Sound
  <2>12. Shown(d) = Shown(c)
    BY <1>4, <2>5 DEF Shown
  <2> QED BY <2>4, <2>11, <2>12
<1> QED BY <1>3, <1>4
\* Where an entry goes.
Goes(p, axis, index, delta) == [p EXCEPT ![axis] = ShiftCoord(@, index, delta)]

\* Relocated takes every entry whose line survives to its new place, and no two
\* to the same.
LEMMA RelocatedEntries ==
    ASSUME NEW f, DOMAIN f \subseteq Position, NEW axis \in Axes, NEW index \in Nat, NEW delta \in Int
    PROVE  LET new == Relocated(f, axis, index, delta)
           IN  /\ \A q \in DOMAIN new :
                     \E p \in DOMAIN f : /\ Survives(p[axis], index, delta)
                                         /\ q = Goes(p, axis, index, delta)
                                         /\ new[q] = f[p]
               /\ \A p \in DOMAIN f : Survives(p[axis], index, delta) =>
                     /\ Goes(p, axis, index, delta) \in DOMAIN new
                     /\ new[Goes(p, axis, index, delta)] = f[p]
               /\ DOMAIN new \subseteq Position
<1> DEFINE To(p) == Goes(p, axis, index, delta)
           stay  == {p \in DOMAIN f : To(p)[axis] # Gone}
           new   == Relocated(f, axis, index, delta)
<1>1. ASSUME NEW p \in Position
      PROVE  /\ p[axis] \in Nat
             /\ To(p)[axis] = ShiftCoord(p[axis], index, delta)
             /\ \A other \in Axes \ {axis} : To(p)[other] = p[other]
             /\ Survives(p[axis], index, delta) => To(p) \in Position
  <2>1. /\ p[axis] \in Nat
        /\ To(p)[axis] = ShiftCoord(p[axis], index, delta)
        /\ \A other \in Axes \ {axis} : To(p)[other] = p[other]
    BY DEF Position, Axes, Goes
  <2>2. Survives(p[axis], index, delta) => ShiftCoord(p[axis], index, delta) \in Nat
    BY <2>1, ShiftedLines
  <2>3. ShiftCoord(p[axis], index, delta) \in Nat => To(p) \in Position
    BY DEF Position, Axes, Goes
  <2> QED BY <2>1, <2>2, <2>3
<1>2. ASSUME NEW p \in Position, NEW q \in Position, To(p) = To(q),
             Survives(p[axis], index, delta), Survives(q[axis], index, delta)
      PROVE  p = q
  <2> HIDE DEF To
  <2>1. ShiftCoord(p[axis], index, delta) = ShiftCoord(q[axis], index, delta)
    BY <1>1, <1>2
  <2>2. p[axis] = q[axis]
    <3>1. p[axis] \in Nat /\ q[axis] \in Nat
      BY <1>1
    <3> HIDE DEF Survives
    <3>2. ~ (p[axis] < q[axis]) /\ ~ (q[axis] < p[axis])
      <4>1. \A line \in Nat : Survives(line, index, delta) => ShiftCoord(line, index, delta) \in Int
        BY ShiftedLines
      <4>2. /\ p[axis] < q[axis] => ShiftCoord(p[axis], index, delta) < ShiftCoord(q[axis], index, delta)
            /\ q[axis] < p[axis] => ShiftCoord(q[axis], index, delta) < ShiftCoord(p[axis], index, delta)
        BY <3>1, <1>2, SurvivorsKeepOrder
      <4> QED BY <4>1, <4>2, <3>1, <2>1, <1>2
    <3> QED BY <3>1, <3>2
  <2>3. \A other \in Axes \ {axis} : p[other] = q[other]
    BY <1>1, <1>2
  <2> QED BY <2>2, <2>3 DEF Position, Axes
<1>3. \A p \in DOMAIN f : p \in stay <=> Survives(p[axis], index, delta)
  BY <1>1 DEF Survives
<1>4. new = [q \in {To(p) : p \in stay} |-> f[CHOOSE p \in stay : To(p) = q]]
  BY DEF Relocated, Goes
<1> HIDE DEF To, stay, new
<1>5. ASSUME NEW q \in DOMAIN new
      PROVE  \E p \in DOMAIN f : /\ Survives(p[axis], index, delta)
                                 /\ q = To(p) /\ new[q] = f[p]
  <2>1. \E p \in stay : To(p) = q
    BY <1>4
  <2>2. PICK p : p \in stay /\ To(p) = q /\ p = CHOOSE x \in stay : To(x) = q
    BY <2>1
  <2>3. new[q] = f[p]
    BY <2>2, <1>4
  <2> QED BY <2>2, <2>3, <1>3 DEF stay
<1>6. ASSUME NEW p \in DOMAIN f, Survives(p[axis], index, delta)
      PROVE  To(p) \in DOMAIN new /\ new[To(p)] = f[p]
  <2>1. p \in stay
    BY <1>3, <1>6
  <2>2. To(p) \in DOMAIN new
    BY <2>1, <1>4
  <2>3. PICK x \in DOMAIN f : Survives(x[axis], index, delta) /\ To(p) = To(x) /\ new[To(p)] = f[x]
    BY <2>2, <1>5
  <2>4. x = p
    BY <2>3, <1>2, <1>6
  <2> QED BY <2>2, <2>3, <2>4
<1>7. DOMAIN new \subseteq Position
  BY <1>1, <1>5
<1> QED BY <1>5, <1>6, <1>7 DEF new, To

\* What Relocated leaves in a place it took from one.
LEMMA RelocatedFrom ==
    ASSUME NEW f, DOMAIN f \subseteq Position, NEW axis \in Axes, NEW index \in Nat, NEW delta \in Int,
           NEW q \in DOMAIN Relocated(f, axis, index, delta)
    PROVE  /\ q \in Position
           /\ \E p \in DOMAIN f : Relocated(f, axis, index, delta)[q] = f[p]
<1>1. PICK new : new = Relocated(f, axis, index, delta)
  OBVIOUS
<1>2. /\ \A r \in DOMAIN new : \E p \in DOMAIN f : new[r] = f[p]
      /\ DOMAIN new \subseteq Position
  BY <1>1, RelocatedEntries, SMTT(30)
<1> QED BY <1>1, <1>2

\* What one step of Restructure is.
LEMMA RestructureSteps ==
    ASSUME NEW s, NEW axis, NEW index, NEW delta,
           Fits(s, axis, index, delta), Restructure(s, axis, index, delta)
    PROVE  /\ Edited(s, axis, index, delta)
           /\ cells' = [t \in Sheets |->
                  LET kept == IF t = s THEN Relocated(cells[t], axis, index, delta) ELSE cells[t]
                  IN  [p \in DOMAIN kept |-> Carried(kept[p], t, s, axis, index, delta)]]
           /\ active' = active /\ clip' = clip
BY Zenon DEF Restructure, Edited, Step, Carried

LEMMA RestructuredCells ==
    ASSUME IInv, EditsAssumption, NEW s, NEW axis, NEW index, NEW delta,
           Fits(s, axis, index, delta), Restructure(s, axis, index, delta)
    PROVE  CellsOK' /\ StylesOK'
<1>1. /\ s \in Sheets /\ axis \in Axes /\ index \in Nat /\ delta \in Int
      /\ LinesOK /\ Edited(s, axis, index, delta)
  BY RestructureSteps, EditedLines DEF IInv
<1>2. ASSUME NEW t \in Sheets, NEW p \in DOMAIN cells'[t]
      PROVE  p \in Position /\ cells'[t][p] \in Sound(t)'
  <2>1. PICK kept : kept = IF t = s THEN Relocated(cells[t], axis, index, delta) ELSE cells[t]
    OBVIOUS
  <2>2. cells'[t] = [q \in DOMAIN kept |-> Carried(kept[q], t, s, axis, index, delta)]
    BY <2>1, RestructureSteps
  <2>3. p \in Position /\ kept[p] \in Sound(t)
    <3>1. \A q \in DOMAIN cells[t] : q \in Position /\ cells[t][q] \in Sound(t)
      BY DEF IInv, CellsOK
    <3>2. p \in DOMAIN kept
      BY <2>2
    <3>3. CASE t # s
      BY <3>1, <3>2, <3>3, <2>1
    <3>4. CASE t = s
      <4>1. kept = Relocated(cells[t], axis, index, delta) /\ DOMAIN cells[t] \subseteq Position
        BY <3>1, <3>4, <2>1
      <4>2. p \in Position /\ \E q \in DOMAIN cells[t] : kept[p] = cells[t][q]
        BY <4>1, <3>2, <1>1, RelocatedFrom, SMTT(30)
      <4> QED BY <4>2, <3>1
    <3> QED BY <3>3, <3>4
  <2>4. cells'[t][p] = Carried(kept[p], t, s, axis, index, delta)
    BY <2>2
  <2> QED BY <2>3, <2>4, <1>1, ContentFollows
<1>3. cells' = [t \in Sheets |-> cells'[t]]
  BY RestructureSteps
<1>4. CellsOK'
  BY <1>2, <1>3 DEF CellsOK
<1>5. styles' = [styles EXCEPT ![s] = Relocated(styles[s], axis, index, delta)]
  BY DEF Restructure
<1>6. styles = [t \in Sheets |-> styles[t]] /\ \A t \in Sheets : DOMAIN styles[t] \subseteq Position
  BY DEF IInv, StylesOK
<1>7. DOMAIN Relocated(styles[s], axis, index, delta) \subseteq Position
  BY <1>1, <1>6, RelocatedEntries
<1>8. StylesOK'
  <2>1. styles' = [t \in Sheets |-> styles'[t]]
    BY <1>5, <1>6
  <2>2. ASSUME NEW t \in Sheets PROVE DOMAIN styles'[t] \subseteq Position
    BY <1>5, <1>6, <1>7
  <2> QED BY <2>1, <2>2 DEF StylesOK
<1> QED BY <1>4, <1>8
\* Every list belongs to a sheet.
LEMMA ListOf ==
    /\ \A l \in Lists : l[1] \in Sheets
    /\ \A s \in Sheets : /\ Formats(s) \in Lists /\ Formats(s)[1] = s
                         /\ Checks(s) \in Lists /\ Checks(s)[1] = s
BY DEF Lists, Formats, Checks

LEMMA RestructuredRules ==
    ASSUME IInv, EditsAssumption, NEW s, NEW axis, NEW index, NEW delta,
           Fits(s, axis, index, delta), Restructure(s, axis, index, delta)
    PROVE  RulesOK'
<1> DEFINE Shift(o) == AdjustOperand(o, s, s, axis, index, delta)
           Due(m)   == Reach(m, s, axis, index, delta)
<1>1. /\ s \in Sheets /\ axis \in Axes /\ index \in Nat /\ delta \in Int
      /\ LinesOK /\ Edited(s, axis, index, delta)
      /\ lines'[s] = LinesAfter(s, axis, index, delta)
      /\ \A t \in Sheets \ {s} : lines'[t] = lines[t]
  BY RestructureSteps, EditedLines DEF IInv
<1>2. /\ rules' = [l \in Lists |-> IF l[1] = s THEN {Shift(o) : o \in rules[l]} \ {RefError}
                                  ELSE rules[l]]
      /\ owed' = [l \in Lists |-> IF l[1] = s THEN {m \in {Due(m) : m \in owed[l]} : ~ Vanished(m)}
                                  ELSE owed[l]]
  BY DEF Restructure
<1>3. /\ \A l \in Lists : \A o \in rules[l] : o.sheet = Own /\ OnLines(l[1], o)
      /\ \A l \in Lists : {CoveredIn(lines[l[1]], o) : o \in rules[l]} = owed[l]
      /\ \A l \in Lists : l[1] \in Sheets
  BY CoveredNow, ListOf DEF IInv, RulesOK, RulesFollow
<1>4. /\ rules' = [l \in Lists |-> rules'[l]] /\ owed' = [l \in Lists |-> owed'[l]]
      /\ \A l \in Lists : l[1] # s => rules'[l] = rules[l] /\ owed'[l] = owed[l]
      /\ \A l \in Lists : l[1] = s =>
            /\ rules'[l] = {Shift(o) : o \in rules[l]} \ {RefError}
            /\ owed'[l] = {m \in {Due(m) : m \in owed[l]} : ~ Vanished(m)}
  BY <1>2
<1>5. ASSUME NEW l \in Lists, l[1] = s, NEW o \in rules[l]
      PROVE  /\ Outcome(Shift(o), lines'[s], Due(CoveredIn(lines[s], o)))
             /\ Shift(o) = RefError <=> Shift(o).form = "error"
             /\ Shift(o) # RefError => Shift(o).sheet = Own
  <2>1. o.sheet = Own /\ Region(o) /\ InOrder(o) /\ WithinIn(lines[s], o) /\ TargetSheet(o, s) = s
    BY <1>1, <1>3, <1>5, CoveredNow DEF OnLines, TargetSheet
  <2>2. IsOperand(o)
    BY <2>1 DEF Region
  <2>3. Fits(s, axis, index, delta)
    OBVIOUS
  <2>4. Outcome(Shift(o), lines'[s], Due(CoveredIn(lines[s], o)))
    BY <1>1, <2>1, <2>3, RegionFollows
  <2>5. /\ Shift(o) = RefError <=> Shift(o).form = "error"
        /\ Shift(o).form # "error" => Shift(o).sheet = o.sheet
    BY <1>1, <2>2, AdjustedOperand
  <2> QED BY <2>1, <2>4, <2>5
<1> HIDE DEF Shift, Due
<1>6. ASSUME NEW l \in Lists, NEW o \in rules'[l]
      PROVE  o.sheet = Own /\ OnLines(l[1], o)'
  <2>1. CASE l[1] = s
    <3>1. PICK x \in rules[l] : o = Shift(x) /\ Shift(x) # RefError
      BY <1>4, <2>1
    <3>2. Region(o) /\ InOrder(o) /\ WithinIn(lines'[s], o) /\ o.sheet = Own
      BY <2>1, <3>1, <1>5 DEF Outcome
    <3> QED BY <3>2, <2>1, CoveredNow DEF OnLines
  <2>2. CASE l[1] # s
    <3>1. o \in rules[l] /\ lines'[l[1]] = lines[l[1]]
      BY <2>2, <1>1, <1>3, <1>4
    <3>2. o.sheet = Own /\ OnLines(l[1], o)
      BY <3>1, <1>3
    <3> QED BY <3>1, <3>2, CoveredNow DEF OnLines
  <2> QED BY <2>1, <2>2
<1>7. ASSUME NEW l \in Lists
      PROVE  {CoveredIn(lines'[l[1]], o) : o \in rules'[l]} = owed'[l]
  <2>1. CASE l[1] = s
    <3>1. ASSUME NEW o \in rules'[l] PROVE CoveredIn(lines'[s], o) \in owed'[l]
      <4>1. PICK x \in rules[l] : o = Shift(x) /\ Shift(x) # RefError
        BY <1>4, <2>1
      <4>2. /\ Due(CoveredIn(lines[s], x)) = CoveredIn(lines'[s], o)
            /\ ~ Vanished(Due(CoveredIn(lines[s], x)))
        BY <2>1, <4>1, <1>5 DEF Outcome
      <4>3. CoveredIn(lines[s], x) \in owed[l]
        BY <2>1, <1>3
      <4> QED BY <2>1, <4>2, <4>3, <1>4
    <3>2. ASSUME NEW m \in owed'[l] PROVE \E o \in rules'[l] : m = CoveredIn(lines'[s], o)
      <4>1. PICK x \in owed[l] : m = Due(x) /\ ~ Vanished(m)
        BY <1>4, <2>1
      <4>2. PICK o \in rules[l] : x = CoveredIn(lines[s], o)
        BY <2>1, <1>3
      <4>3. Outcome(Shift(o), lines'[s], m)
        BY <2>1, <4>1, <4>2, <1>5
      <4>4. Shift(o) # RefError /\ m = CoveredIn(lines'[s], Shift(o))
        BY <2>1, <4>1, <4>3, <1>5 DEF Outcome
      <4> QED BY <2>1, <4>4, <1>4
    <3> QED BY <3>1, <3>2, <2>1
  <2>2. CASE l[1] # s
    BY <2>2, <1>1, <1>3, <1>4
  <2> QED BY <2>1, <2>2
<1>8. RulesFollow'
  BY <1>7, CoveredNow DEF RulesFollow
<1> QED BY <1>4, <1>6, <1>8 DEF RulesOK

\* One name.
LEMMA NameFollows ==
    ASSUME IInv, EditsAssumption, NEW s, NEW axis, NEW index, NEW delta,
           Fits(s, axis, index, delta), Restructure(s, axis, index, delta),
           NEW n \in DOMAIN namesOwed
    PROVE  NameOK(n)' /\ namesOwed'[n] \in Dues
<1> DEFINE Shift(o) == AdjustOperand(o, s, s, axis, index, delta)
<1>1. /\ s \in Sheets /\ axis \in Axes /\ index \in Nat /\ delta \in Int
      /\ LinesOK /\ Edited(s, axis, index, delta)
      /\ lines'[s] = LinesAfter(s, axis, index, delta)
      /\ \A t \in Sheets \ {s} : lines'[t] = lines[t]
  BY RestructureSteps, EditedLines DEF IInv
<1>2. PICK due : due = namesOwed[n]
  OBVIOUS
<1>3. PICK m : m = IF due.sheet = s THEN Reach(due.means, s, axis, index, delta) ELSE due.means
  OBVIOUS
<1>4. due \in Dues /\ NameOK(n)
  BY <1>2 DEF IInv, NamesOK
<1>5. PICK owing : owing = namesOwed'[n]
  OBVIOUS
<1>6. /\ owing = [due EXCEPT !.means = m, !.strayed = @ \/ (due.bare /\ due.sheet # s)]
      /\ DOMAIN namesOwed' = DOMAIN namesOwed
  BY <1>2, <1>3, <1>5 DEF Restructure
<1>7. m \in [Axes -> SUBSET Ids] /\ (Vanished(due.means) => Vanished(m))
  <2>1. due.means \in [Axes -> SUBSET Ids]
    BY <1>4 DEF Dues
  <2>2. /\ Reach(due.means, s, axis, index, delta) \in [Axes -> SUBSET Ids]
        /\ Vanished(due.means) => Vanished(Reach(due.means, s, axis, index, delta))
    BY <2>1, <1>1, Reached
  <2> QED BY <2>1, <2>2, <1>3
<1>8. /\ owing \in Dues /\ owing.sheet = due.sheet /\ owing.bare = due.bare /\ owing.means = m
      /\ owing.strayed = (due.strayed \/ (due.bare /\ due.sheet # s))
  BY <1>4, <1>6, <1>7 DEF Dues
<1>9. /\ DOMAIN names' = {k \in DOMAIN names : Shift(names[k]) # RefError}
      /\ \A k \in DOMAIN names' : names'[k] = Shift(names[k])
  BY DEF Restructure
<1> HIDE DEF Shift
<1>10. due.sheet \in Sheets /\ due.bare \in BOOLEAN /\ due.strayed \in BOOLEAN /\ Own \notin Sheets
  BY <1>4 DEF Dues, EditsAssumption
<1>11. CASE n \notin DOMAIN names
  <2>1. n \notin DOMAIN names' /\ (~ due.strayed => Vanished(due.means))
    BY <1>2, <1>4, <1>9, <1>11 DEF NameOK
  <2>2. ~ owing.strayed => Vanished(owing.means)
    BY <2>1, <1>7, <1>8
  <2> QED BY <2>1, <2>2, <1>5, <1>8 DEF NameOK
<1>12. CASE n \in DOMAIN names
  <2>1. PICK o, new : o = names[n] /\ new = Shift(o)
    OBVIOUS
  <2>2. /\ Region(o) /\ o.sheet = IF due.bare THEN Own ELSE due.sheet
        /\ ~ due.strayed => /\ InOrder(o) /\ WithinIn(lines[due.sheet], o)
                            /\ due.means = CoveredIn(lines[due.sheet], o)
    BY <2>1, <1>2, <1>4, <1>12, CoveredNow DEF NameOK, OnLines
  <2>3. /\ new = RefError <=> new.form = "error"
        /\ new.form # "error" => new.sheet = o.sheet /\ Region(new)
    <3>1. IsOperand(o)
      BY <2>2 DEF Region
    <3> QED BY <3>1, <2>1, <2>2, <1>1, AdjustedOperand DEF Shift
  <2>4. /\ n \in DOMAIN names' <=> new # RefError
        /\ n \in DOMAIN names' => names'[n] = new
    BY <2>1, <1>9, <1>12
  <2>5. ASSUME ~ owing.strayed
        PROVE  IF new.form = "error" THEN Vanished(m)
               ELSE /\ InOrder(new) /\ WithinIn(lines'[due.sheet], new)
                    /\ CoveredIn(lines'[due.sheet], new) = m
    <3>1. ~ due.strayed /\ (due.bare => due.sheet = s)
      BY <2>5, <1>8, <1>10
    <3>2. CASE due.sheet = s
      <4>1. TargetSheet(o, s) = s
        BY <3>2, <2>2 DEF TargetSheet
      <4>2. InOrder(o) /\ WithinIn(lines[s], o) /\ due.means = CoveredIn(lines[s], o)
        BY <3>1, <3>2, <2>2
      <4>3. Outcome(new, lines'[s], Reach(CoveredIn(lines[s], o), s, axis, index, delta))
        BY <4>1, <4>2, <2>1, <2>2, <1>1, RegionFollows DEF Shift
      <4>4. m = Reach(CoveredIn(lines[s], o), s, axis, index, delta)
        BY <4>2, <3>2, <1>3
      <4> QED BY <4>3, <4>4, <3>2 DEF Outcome
    <3>3. CASE due.sheet # s
      <4>1. TargetSheet(o, s) # s
        BY <3>1, <3>3, <2>2, <1>10 DEF TargetSheet
      <4>2. new = o
        BY <4>1, <2>1, <2>2, RegionFields DEF Shift, AdjustOperand, IsRegion
      <4>3. lines'[due.sheet] = lines[due.sheet] /\ m = due.means /\ o.form # "error"
        BY <3>3, <1>1, <1>3, <1>10, <2>2, RegionFields
      <4> QED BY <4>2, <4>3, <3>1, <2>2
    <3> QED BY <3>2, <3>3
  <2>6. n \in DOMAIN names' =>
            /\ Region(names'[n])
            /\ names'[n].sheet = IF owing.bare THEN Own ELSE owing.sheet
    BY <2>2, <2>3, <2>4, <1>8
  <2>7. PICK x : x = names'[n]
    OBVIOUS
  <2>8. ~ owing.strayed =>
            IF n \in DOMAIN names'
            THEN /\ Region(x) /\ InOrder(x) /\ WithinIn(lines'[owing.sheet], x)
                 /\ CoveredIn(lines'[owing.sheet], x) = owing.means
            ELSE Vanished(owing.means)
    <3>1. CASE n \in DOMAIN names'
      <4>1. new.form # "error" /\ x = new /\ Region(new)
        BY <3>1, <2>3, <2>4, <2>7
      <4> QED BY <4>1, <3>1, <2>5, <1>8
    <3>2. CASE n \notin DOMAIN names'
      BY <3>2, <2>3, <2>4, <2>5, <1>8
    <3> QED BY <3>1, <3>2
  <2>9. ~ owing.strayed =>
            IF n \in DOMAIN names'
            THEN OnLines(owing.sheet, x)' /\ Covered(owing.sheet, x)' = owing.means
            ELSE Vanished(owing.means)
    BY <2>8, CoveredNow DEF OnLines
  <2>10. n \in DOMAIN names' =>
             Region(x) /\ x.sheet = IF owing.bare THEN Own ELSE owing.sheet
    BY <2>6, <2>7
  <2> QED BY <2>7, <2>9, <2>10, <1>5, <1>8 DEF NameOK, OnLines, Within, Covered
<1> QED BY <1>11, <1>12

LEMMA RestructuredNames ==
    ASSUME IInv, EditsAssumption, NEW s, NEW axis, NEW index, NEW delta,
           Fits(s, axis, index, delta), Restructure(s, axis, index, delta)
    PROVE  NamesOK'
<1>1. \A n \in DOMAIN namesOwed : NameOK(n)' /\ namesOwed'[n] \in Dues
  BY NameFollows
<1>2. namesOwed' = [n \in DOMAIN namesOwed |-> namesOwed'[n]]
  BY DEF Restructure
<1>3. /\ names' = [n \in DOMAIN names' |-> names'[n]]
      /\ DOMAIN names' \subseteq DOMAIN names
  BY DEF Restructure
<1>4. DOMAIN names \subseteq DOMAIN namesOwed
  BY DEF IInv, NamesOK
<1> QED BY <1>1, <1>2, <1>3, <1>4 DEF NamesOK

\* Names follow when each is as it ought to be.
LEMMA NamesFollowFrom ==
    ASSUME LinesOK, NamesOK
    PROVE  NamesFollow
<1> SUFFICES ASSUME NEW n \in DOMAIN namesOwed, ~ namesOwed[n].strayed
             PROVE  IF Vanished(namesOwed[n].means) THEN n \notin DOMAIN names
                    ELSE /\ n \in DOMAIN names
                         /\ Covered(namesOwed[n].sheet, names[n]) = namesOwed[n].means
  BY DEF NamesFollow
<1>1. NameOK(n) /\ namesOwed[n] \in Dues
  BY DEF NamesOK
<1>2. PICK ls : ls = lines[namesOwed[n].sheet]
  OBVIOUS
<1>3. ls \in [Axes -> Seq(Ids)]
  BY <1>1, <1>2 DEF LinesOK, Dues
<1>4. CASE n \in DOMAIN names
  <2>1. /\ Region(names[n]) /\ InOrder(names[n]) /\ WithinIn(ls, names[n])
        /\ Covered(namesOwed[n].sheet, names[n]) = namesOwed[n].means
        /\ Covered(namesOwed[n].sheet, names[n]) = CoveredIn(ls, names[n])
    BY <1>1, <1>2, <1>4, CoveredNow DEF NameOK, OnLines
  <2>2. ~ Vanished(CoveredIn(ls, names[n]))
    BY <2>1, <1>3, CoveredAlong
  <2> QED BY <2>1, <2>2, <1>4
<1>5. CASE n \notin DOMAIN names
  BY <1>1, <1>5 DEF NameOK
<1> QED BY <1>4, <1>5
-----------------------------------------------------------------------------
\* The edits that leave the lines alone.

LEMMA SameLines ==
    ASSUME LinesOK, lines' = lines, steps' = steps + 1
    PROVE  LinesOK' /\ \A t : Sound(t)' = Sound(t)
<1>1. LinesOK'
  <2>1. ASSUME NEW t \in Sheets, NEW axis \in Axes, NEW i \in 1 .. Len(lines[t][axis])
        PROVE  lines[t][axis][i][1] <= steps + 1
    <3>1. lines[t][axis] \in Seq(Ids)
      BY DEF LinesOK
    <3>2. lines[t][axis][i] \in Ids
      BY <3>1, ElementOfSeq
    <3>3. lines[t][axis][i][1] \in Nat /\ lines[t][axis][i][1] <= steps /\ steps \in Nat
      BY <3>2 DEF LinesOK, Ids
    <3> QED BY <3>3
  <2> QED BY <2>1 DEF LinesOK
<1>2. \A t, c : Faithful(t, c)' <=> Faithful(t, c)
  BY DEF Faithful, Within, Covered
<1> QED BY <1>1, <1>2 DEF Sound

LEMMA RawSound ==
    ASSUME CellsOK, NEW s \in Sheets, NEW p
    PROVE  Raw(s, p) \in Sound(s) /\ Raw(s, p) \in Content /\ Empty \in Sound(s)
<1>1. Empty \in Sound(s)
  BY DEF Sound, Content, Faithful, Empty
<1> QED BY <1>1 DEF CellsOK, Raw, Sound

LEMMA PutEntries ==
    ASSUME NEW f, NEW new, NEW S,
           \A p \in DOMAIN f : p \in Position /\ f[p] \in S,
           \A p \in DOMAIN new : p \in Position /\ new[p] \in S
    PROVE  \A p \in DOMAIN Put(f, new) : p \in Position /\ Put(f, new)[p] \in S
BY DEF Put

\* Sound contents put into a sheet leave it sound.
LEMMA PutCells ==
    ASSUME CellsOK, LinesOK, lines' = lines, steps' = steps + 1, NEW s \in Sheets, NEW new,
           \A p \in DOMAIN new : p \in Position /\ new[p] \in Sound(s),
           cells' = [cells EXCEPT ![s] = Put(@, new)]
    PROVE  CellsOK'
<1>1. \A t : Sound(t)' = Sound(t)
  BY SameLines
<1>2. /\ cells = [t \in Sheets |-> cells[t]]
      /\ \A t \in Sheets : \A p \in DOMAIN cells[t] : p \in Position /\ cells[t][p] \in Sound(t)
  BY DEF CellsOK
<1>3. /\ cells' = [t \in Sheets |-> cells'[t]]
      /\ cells'[s] = Put(cells[s], new) /\ \A t \in Sheets \ {s} : cells'[t] = cells[t]
  BY <1>2
<1>4. \A p \in DOMAIN Put(cells[s], new) : p \in Position /\ Put(cells[s], new)[p] \in Sound(s)
  BY <1>2, PutEntries
<1>5. ASSUME NEW t \in Sheets, NEW p \in DOMAIN cells'[t]
      PROVE  p \in Position /\ cells'[t][p] \in Sound(t)'
  <2>1. CASE t = s
    BY <2>1, <1>1, <1>3, <1>4
  <2>2. CASE t # s
    BY <2>2, <1>1, <1>2, <1>3
  <2> QED BY <2>1, <2>2
<1> QED BY <1>3, <1>5 DEF CellsOK

\* A formula is sound when it is written, on cells of the sheet.
LEMMA FormulaSound ==
    ASSUME LinesOK, EditsAssumption, NEW s \in Sheets, NEW o, IsOperand(o),
           Within(TargetSheet(o, s), o)
    PROVE  Formula(s, o) \in Sound(s)
<1>1. PICK t, m : /\ t = TargetSheet(o, s)
                  /\ m = IF o.form = "error" THEN Nothing ELSE Covered(t, o)
  OBVIOUS
<1>2. PICK c : c = Formula(s, o)
  OBVIOUS
<1>3. /\ c = [kind |-> "formula", operand |-> o, inOrder |-> InOrder(o), means |-> m]
  BY <1>1, <1>2 DEF Formula
<1>4. InOrder(o) \in BOOLEAN
  BY DEF InOrder
<1>5. o.form # "error" => t \in Sheets
  BY <1>1, OperandFields DEF TargetSheet
<1>6. m \in [Axes -> SUBSET Ids] /\ (o.form = "error" => Vanished(m))
  <2>1. CASE o.form = "error"
    BY <2>1, <1>1 DEF Nothing, Vanished, Axes
  <2>2. CASE o.form # "error"
    <3>1. ASSUME NEW axis \in Axes, NEW i \in 0 .. Len(lines[t][axis]) - 1
          PROVE  lines[t][axis][i + 1] \in Ids
      <4>1. lines[t][axis] \in Seq(Ids) /\ Len(lines[t][axis]) \in Nat
        <5>1. lines[t][axis] \in Seq(Ids)
          BY <1>5, <2>2 DEF LinesOK
        <5> QED BY <5>1, LenProperties
      <4>2. i + 1 \in 1 .. Len(lines[t][axis])
        BY <4>1
      <4> QED BY <4>1, <4>2, ElementOfSeq
    <3>2. Covered(t, o) \in [Axes -> SUBSET Ids]
      BY <3>1 DEF Covered
    <3> QED BY <3>2, <2>2, <1>1
  <2> QED BY <2>1, <2>2
<1>7. c \in Content
  <2>1. o \in Tokens
    BY DEF IsOperand, Tokens, Refs
  <2>2. c \in Formulas
    BY <2>1, <1>3, <1>4, <1>6 DEF Formulas
  <2> QED BY <2>2 DEF Content
<1>8. Faithful(s, c)
  <2>1. c.operand = o /\ c.inOrder = InOrder(o) /\ c.means = m
    BY <1>3
  <2>2. ASSUME InOrder(o)
        PROVE  IF o.form = "error" THEN Vanished(m)
               ELSE InOrder(o) /\ Within(t, o) /\ m = Covered(t, o)
    BY <2>2, <1>1, <1>6
  <2> HIDE DEF InOrder
  <2> QED BY <2>1, <2>2, <1>1 DEF Faithful
<1> QED BY <1>2, <1>7, <1>8 DEF Sound

LEMMA ShiftedOperand ==
    ASSUME NEW o, IsOperand(o), NEW by \in Vectors
    PROVE  IsOperand(ShiftOperand(o, by))
<1>1. IsOperand(RefError)
  BY DEF IsOperand
<1>2. CASE o.form = "error" \/ (by.row = 0 /\ by.col = 0)
  <2>1. ShiftOperand(o, by) = o
    <3>1. CASE o.form = "error"
      BY <3>1 DEF ShiftOperand, IsRegion
    <3>2. CASE o.form # "error" /\ by.row = 0 /\ by.col = 0
      BY <3>2 DEF ShiftOperand, IsRegion
    <3> QED BY <1>2, <3>1, <3>2
  <2> QED BY <2>1
<1>3. CASE o.form # "error" /\ (by.row # 0 \/ by.col # 0)
  <2>1. /\ o \in [form : {"cell", "range", "spill"}, sheet : Sheets \cup {Own},
                  first : Refs, last : Refs]
        /\ o.form # "range" => o.first = o.last
    BY <1>3, OperandFields
  <2>2. CASE o.form = "spill"
    <3>1. ShiftOperand(o, by) = [o EXCEPT !.form = "cell"]
      BY <1>3, <2>2 DEF ShiftOperand, IsRegion
    <3> QED BY <3>1, <2>1, <2>2 DEF IsOperand, Refs
  <2>3. CASE o.form \in {"cell", "range"}
    <3>1. PICK first, last : first = Moved(o.first, by) /\ last = Moved(o.last, by)
      OBVIOUS
    <3>2. first \in Refs /\ last \in Refs /\ (o.form # "range" => first = last)
      <4>1. ASSUME NEW ref \in Refs
            PROVE  Moved(ref, by) \in Refs
        <5>1. by.row \in Int /\ by.col \in Int
          BY DEF Vectors
        <5>2. ref.row + by.row \in Int /\ ref.col + by.col \in Int
          BY <5>1 DEF Refs
        <5>3. PICK r, k : /\ r = IF "row" \in ref.fixed THEN ref.row ELSE ref.row + by.row
                          /\ k = IF "col" \in ref.fixed THEN ref.col ELSE ref.col + by.col
          OBVIOUS
        <5>4. r \in Int /\ k \in Int
          BY <5>2, <5>3 DEF Refs
        <5>5. Moved(ref, by) = [ref EXCEPT !.row = r, !.col = k]
          BY <5>3 DEF Moved, Refs
        <5> QED BY <5>4, <5>5 DEF Refs
      <4> QED BY <4>1, <3>1, <2>1
    <3>3. \/ ShiftOperand(o, by) = RefError
          \/ ShiftOperand(o, by) = [o EXCEPT !.first = first, !.last = last]
      BY <1>3, <2>3, <3>1 DEF ShiftOperand, IsRegion
    <3>4. IsOperand([o EXCEPT !.first = first, !.last = last])
      BY <2>1, <3>2 DEF IsOperand, Refs
    <3> QED BY <3>3, <3>4, <1>1
  <2> QED BY <2>1, <2>2, <2>3
<1> QED BY <1>2, <1>3

\* So is a copy of a formula.
LEMMA CopiedSound ==
    ASSUME LinesOK, EditsAssumption, NEW s \in Sheets, NEW c \in Content, NEW by \in Vectors,
           CopyFits(c, s, by)
    PROVE  Copied(c, s, by) \in Sound(s)
<1>1. CASE c.kind = "formula"
  <2>1. PICK new : new = ShiftOperand(c.operand, by)
    OBVIOUS
  <2>2. IsOperand(c.operand)
    BY <1>1, FormulaFields
  <2>3. IsOperand(new) /\ Within(TargetSheet(new, s), new)
    BY <1>1, <2>1, <2>2, ShiftedOperand DEF CopyFits
  <2>4. Formula(s, new) \in Sound(s)
    BY <2>3, FormulaSound
  <2> QED BY <1>1, <2>1, <2>4 DEF Copied
<1>2. CASE c.kind # "formula"
  BY <1>2 DEF Copied, Sound, Faithful
<1> QED BY <1>1, <1>2

LEMMA BoxPositions ==
    ASSUME NEW region \in Regions, EditsAssumption, NEW p \in Box(region)
    PROVE  /\ p \in Position
           /\ p.row \in region.top.row .. region.bottom.row
           /\ p.col \in region.top.col .. region.bottom.col
           /\ region.top \in Position /\ region.bottom \in Position
           /\ p = Cell(p.row, p.col)
<1>1. region \in [top : Position, bottom : Position]
  BY DEF EditsAssumption
<1>2. region.top \in Position /\ region.bottom \in Position
  BY <1>1
<1>3. PICK r \in region.top.row .. region.bottom.row, k \in region.top.col .. region.bottom.col :
          p = Cell(r, k)
  BY DEF Box
<1>4. r \in Nat /\ k \in Nat
  BY <1>2 DEF Position
<1>5. p.row = r /\ p.col = k /\ p \in Position /\ p = Cell(p.row, p.col)
  BY <1>3, <1>4 DEF Cell, Position
<1> QED BY <1>2, <1>3, <1>5
\* Rules and names are as they were when neither they nor the lines change.
LEMMA RulesKept ==
    ASSUME RulesOK, lines' = lines, rules' = rules, owed' = owed
    PROVE  RulesOK'
<1>1. \A s, o : (Covered(s, o)' = Covered(s, o)) /\ (Within(s, o)' <=> Within(s, o))
  BY DEF Covered, Within
<1>2. RulesFollow'
  BY <1>1 DEF RulesOK, RulesFollow
<1> QED BY <1>1, <1>2 DEF RulesOK, OnLines

LEMMA NameKept ==
    ASSUME NEW n, NameOK(n), lines' = lines, namesOwed'[n] = namesOwed[n],
           n \in DOMAIN names' <=> n \in DOMAIN names,
           n \in DOMAIN names => names'[n] = names[n]
    PROVE  NameOK(n)'
<1>1. \A s, o : (Covered(s, o)' = Covered(s, o)) /\ (Within(s, o)' <=> Within(s, o))
  BY DEF Covered, Within
<1>2. \A s, o : OnLines(s, o)' <=> OnLines(s, o)
  BY <1>1 DEF OnLines
<1> QED BY <1>1, <1>2 DEF NameOK

LEMMA NamesKept ==
    ASSUME NamesOK, lines' = lines, names' = names, namesOwed' = namesOwed
    PROVE  NamesOK'
<1>1. \A n \in DOMAIN namesOwed : NameOK(n)'
  BY NameKept DEF NamesOK
<1> QED BY <1>1 DEF NamesOK

LEMMA CellsKept ==
    ASSUME CellsOK, LinesOK, lines' = lines, steps' = steps + 1, cells' = cells
    PROVE  CellsOK'
<1>1. \A t : Sound(t)' = Sound(t)
  BY SameLines
<1> QED BY <1>1 DEF CellsOK

\* What an edit of cells, styles or clip need not look at.
Aside == /\ lines' = lines /\ steps' = steps + 1
         /\ rules' = rules /\ owed' = owed
         /\ names' = names /\ namesOwed' = namesOwed

LEMMA AsideKept ==
    ASSUME IInv, Aside
    PROVE  LinesOK' /\ RulesOK' /\ NamesOK' /\ (cells' = cells => CellsOK')
<1>1. LinesOK'
  BY SameLines DEF IInv, Aside
<1>2. RulesOK' /\ NamesOK'
  BY RulesKept, NamesKept DEF IInv, Aside
<1>3. cells' = cells => CellsOK'
  BY CellsKept DEF IInv, Aside
<1> QED BY <1>1, <1>2, <1>3

\* Cells of one sheet are set.
LEMMA CellsSet ==
    ASSUME IInv, Aside, active' = active, styles' = styles, NEW s \in Sheets, NEW new,
           \A p \in DOMAIN new : p \in Position /\ new[p] \in Sound(s),
           cells' = [cells EXCEPT ![s] = Put(@, new)], ClipOK'
    PROVE  IInv'
<1>1. CellsOK'
  BY PutCells DEF IInv, Aside
<1>2. StylesOK'
  BY DEF IInv, StylesOK
<1> QED BY <1>1, <1>2, AsideKept DEF IInv

LEMMA WriteKeeps ==
    ASSUME IInv, NEW s \in Sheets, NEW p \in Position, NEW c \in Sound(s), Write(s, p, c)
    PROVE  IInv'
<1>1. PICK new : new = [q \in {p} |-> c]
  OBVIOUS
<1>2. \A q \in DOMAIN new : q \in Position /\ new[q] \in Sound(s)
  BY <1>1
<1>3. Aside /\ active' = active /\ styles' = styles /\ clip' = clip
      /\ cells' = [cells EXCEPT ![s] = Put(@, new)]
  BY <1>1 DEF Write, Step, Aside
<1>4. ClipOK'
  BY <1>3 DEF IInv, ClipOK
<1> QED BY <1>2, <1>3, <1>4, CellsSet

LEMMA SwitchSheetKeeps ==
    ASSUME IInv, NEW s \in Sheets, SwitchSheet(s)
    PROVE  IInv'
<1>1. Aside /\ active' = s /\ cells' = cells /\ styles' = styles /\ clip' = clip
  BY DEF SwitchSheet, Step, Aside
<1>2. StylesOK' /\ ClipOK'
  BY <1>1 DEF IInv, StylesOK, ClipOK
<1> QED BY <1>1, <1>2, AsideKept DEF IInv

LEMMA ClippedOK ==
    ASSUME IInv, EditsAssumption, NEW s \in Sheets, NEW region \in Regions, clip' = Clipped(s, region)
    PROVE  ClipOK'
<1>1. region.top \in Position
  BY DEF EditsAssumption
<1>2. PICK grid : grid = [p \in Box(region) |-> Raw(s, p)]
  OBVIOUS
<1>3. clip' = [kind |-> "clip", origin |-> region.top, grid |-> grid]
  BY <1>2 DEF Clipped
<1>4. ASSUME NEW p \in DOMAIN grid
      PROVE  /\ p \in Position
             /\ p.row >= region.top.row /\ p.col >= region.top.col
             /\ grid[p] \in Content
  <2>1. p \in Box(region)
    BY <1>2
  <2>2. /\ p \in Position
        /\ p.row \in region.top.row .. region.bottom.row
        /\ p.col \in region.top.col .. region.bottom.col
    BY <2>1, BoxPositions
  <2>3. p.row >= region.top.row /\ p.col >= region.top.col
    BY <2>2, <1>1 DEF Position
  <2>4. grid[p] \in Content
    BY <2>1, <1>2, RawSound DEF IInv
  <2> QED BY <2>2, <2>3, <2>4
<1> QED BY <1>1, <1>3, <1>4 DEF ClipOK

LEMMA CopyKeeps ==
    ASSUME IInv, EditsAssumption, NEW s \in Sheets, NEW region \in Regions, Copy(s, region)
    PROVE  IInv'
<1>1. Aside /\ active' = active /\ cells' = cells /\ styles' = styles /\ clip' = Clipped(s, region)
  BY DEF Copy, Step, Aside
<1>2. StylesOK' /\ ClipOK'
  BY <1>1, ClippedOK DEF IInv, StylesOK
<1> QED BY <1>1, <1>2, AsideKept DEF IInv

LEMMA EmptyBox ==
    ASSUME IInv, EditsAssumption, NEW s \in Sheets, NEW region \in Regions,
           NEW new, new = [p \in Box(region) |-> Empty]
    PROVE  \A p \in DOMAIN new : p \in Position /\ new[p] \in Sound(s)
BY BoxPositions, RawSound DEF IInv

LEMMA CutKeeps ==
    ASSUME IInv, EditsAssumption, NEW s \in Sheets, NEW region \in Regions, Cut(s, region)
    PROVE  IInv'
<1>1. PICK new : new = [p \in Box(region) |-> Empty]
  OBVIOUS
<1>2. /\ Aside /\ active' = active /\ styles' = styles /\ clip' = Clipped(s, region)
      /\ cells' = [cells EXCEPT ![s] = Put(@, new)]
  BY <1>1 DEF Cut, Step, Aside
<1>3. ClipOK'
  BY <1>2, ClippedOK
<1> QED BY <1>1, <1>2, <1>3, EmptyBox, CellsSet

LEMMA ClearKeeps ==
    ASSUME IInv, EditsAssumption, NEW s \in Sheets, NEW region \in Regions, Clear(s, region)
    PROVE  IInv'
<1>1. PICK new : new = [p \in Box(region) |-> Empty]
  OBVIOUS
<1>2. /\ Aside /\ active' = active /\ styles' = styles /\ clip' = clip
      /\ cells' = [cells EXCEPT ![s] = Put(@, new)]
  BY <1>1 DEF Clear, Step, Aside
<1>3. ClipOK'
  BY <1>2 DEF IInv, ClipOK
<1> QED BY <1>1, <1>2, <1>3, EmptyBox, CellsSet

LEMMA PasteKeeps ==
    ASSUME IInv, EditsAssumption, NEW s \in Sheets, NEW at \in Position, Paste(s, at)
    PROVE  IInv'
<1>1. PICK by : by = By(clip.origin, at)
  OBVIOUS
<1>2. PICK new : new = [q \in {Cell(p.row + by.row, p.col + by.col) : p \in DOMAIN clip.grid} |->
                          Copied(clip.grid[Cell(q.row - by.row, q.col - by.col)], s, by)]
  OBVIOUS
<1>3. /\ Aside /\ active' = active /\ styles' = styles /\ clip' = clip /\ clip # NoClip
      /\ \A p \in DOMAIN clip.grid : CopyFits(clip.grid[p], s, by)
      /\ cells' = [cells EXCEPT ![s] = Put(@, new)]
  BY <1>1, <1>2 DEF Paste, Step, Aside
<1>4. ClipOK'
  BY <1>3 DEF IInv, ClipOK
<1>5. /\ clip.origin \in Position
      /\ \A p \in DOMAIN clip.grid :
               /\ p \in Position
               /\ p.row >= clip.origin.row /\ p.col >= clip.origin.col
               /\ clip.grid[p] \in Content
  BY <1>3 DEF IInv, ClipOK
<1>6. /\ by \in Vectors
      /\ by.row = at.row - clip.origin.row /\ by.col = at.col - clip.origin.col
  BY <1>1, <1>5 DEF By, Vectors, Position
<1>7. ASSUME NEW q \in DOMAIN new
      PROVE  q \in Position /\ new[q] \in Sound(s)
  <2>1. PICK p \in DOMAIN clip.grid : q = Cell(p.row + by.row, p.col + by.col)
    BY <1>2
  <2>2. q \in Position /\ Cell(q.row - by.row, q.col - by.col) = p
    BY <2>1, <1>5, <1>6 DEF Cell, Position
  <2>3. new[q] = Copied(clip.grid[p], s, by)
    BY <2>2, <1>2
  <2>4. clip.grid[p] \in Content /\ CopyFits(clip.grid[p], s, by)
    BY <1>3, <1>5
  <2>5. Copied(clip.grid[p], s, by) \in Sound(s)
    BY <2>4, <1>6, CopiedSound DEF IInv
  <2> QED BY <2>2, <2>3, <2>5
<1> QED BY <1>3, <1>4, <1>7, CellsSet

\* The cell that a cell of a region is filled from.
Source(p, region, axis) == [p EXCEPT ![axis] = region.top[axis]]

LEMMA Sources ==
    ASSUME EditsAssumption, NEW region \in Regions, NEW axis \in Axes, NEW p \in Box(region)
    PROVE  /\ Source(p, region, axis) \in Position /\ p \in Position
           /\ By(Source(p, region, axis), p) \in Vectors
<1>1. p \in Position /\ region.top \in Position
  BY BoxPositions
<1>2. Source(p, region, axis) \in Position
  BY <1>1 DEF Source, Position, Axes
<1> QED BY <1>1, <1>2 DEF By, Vectors, Position

LEMMA FillKeeps ==
    ASSUME IInv, EditsAssumption, NEW s \in Sheets, NEW region \in Regions, NEW axis \in Axes,
           Fill(s, region, axis)
    PROVE  IInv'
<1>1. PICK goal : goal = {p \in Box(region) : p[axis] # region.top[axis]}
  OBVIOUS
<1>2. PICK new : new = [p \in goal |-> Copied(Raw(s, Source(p, region, axis)), s,
                                              By(Source(p, region, axis), p))]
  OBVIOUS
<1>3. /\ Aside /\ active' = active /\ styles' = styles /\ clip' = clip
      /\ \A p \in goal : CopyFits(Raw(s, Source(p, region, axis)), s, By(Source(p, region, axis), p))
      /\ cells' = [cells EXCEPT ![s] = Put(@, new)]
  BY Zenon, <1>1, <1>2 DEF Fill, Step, Aside, Source
<1>4. ClipOK'
  BY <1>3 DEF IInv, ClipOK
<1>5. ASSUME NEW p \in DOMAIN new
      PROVE  p \in Position /\ new[p] \in Sound(s)
  <2>1. p \in goal /\ p \in Box(region)
    BY <1>1, <1>2
  <2>2. p \in Position /\ By(Source(p, region, axis), p) \in Vectors
    BY <2>1, Sources
  <2>3. Raw(s, Source(p, region, axis)) \in Content
    BY RawSound DEF IInv
  <2>4. Copied(Raw(s, Source(p, region, axis)), s, By(Source(p, region, axis), p)) \in Sound(s)
    BY <1>3, <2>1, <2>2, <2>3, CopiedSound DEF IInv
  <2> QED BY <1>2, <2>1, <2>2, <2>4
<1> QED BY <1>3, <1>4, <1>5, CellsSet
-----------------------------------------------------------------------------
\* Sorting.

LEMMA Kinds ==
    ASSUME EditsAssumption, NEW c \in Content
    PROVE  c.kind \in {"empty", "plain", "formula"} /\ (c.kind = "plain" => c.number \in Nat)
<1>1. Numbers \subseteq Nat
  BY DEF EditsAssumption
<1>2. CASE c = Empty
  BY <1>2 DEF Empty
<1>3. CASE c \in Plains
  BY <1>1, <1>3 DEF Plains
<1>4. CASE c \in Formulas
  BY <1>4 DEF Formulas
<1> QED BY <1>2, <1>3, <1>4 DEF Content

\* Before orders contents up to those of equal rank.
LEMMA BeforeOrders ==
    ASSUME EditsAssumption, NEW a \in Content, NEW b \in Content, NEW c \in Content, NEW descending
    PROVE  /\ ~ (Before(a, b, descending) /\ Before(b, a, descending))
           /\ Before(a, b, descending) /\ Before(b, c, descending) => Before(a, c, descending)
           /\ ~ Before(a, b, descending) /\ ~ Before(b, c, descending) => ~ Before(a, c, descending)
<1>1. /\ a.kind \in {"empty", "plain", "formula"} /\ (a.kind = "plain" => a.number \in Nat)
      /\ b.kind \in {"empty", "plain", "formula"} /\ (b.kind = "plain" => b.number \in Nat)
      /\ c.kind \in {"empty", "plain", "formula"} /\ (c.kind = "plain" => c.number \in Nat)
  BY Kinds
<1>2. CASE descending
  BY <1>1, <1>2, SMTT(60) DEF Before
<1>3. CASE ~ descending
  BY <1>1, <1>3, SMTT(60) DEF Before
<1> QED BY <1>2, <1>3

\* Row i comes before row r in a stable order of the contents K.
Ahead(K, descending, i, r) ==
    \/ Before(K[i], K[r], descending)
    \/ i < r /\ ~ Before(K[r], K[i], descending)

LEMMA AheadOrders ==
    ASSUME EditsAssumption, NEW a \in Nat, NEW b \in Nat, NEW K \in [a .. b -> Content],
           NEW descending, NEW i \in a .. b, NEW j \in a .. b, NEW r \in a .. b
    PROVE  /\ ~ Ahead(K, descending, i, i)
           /\ i # j => Ahead(K, descending, i, j) \/ Ahead(K, descending, j, i)
           /\ Ahead(K, descending, i, j) /\ Ahead(K, descending, j, r) => Ahead(K, descending, i, r)
<1>1. K[i] \in Content /\ K[j] \in Content /\ K[r] \in Content
  OBVIOUS
<1>2. ~ Ahead(K, descending, i, i)
  BY <1>1, BeforeOrders DEF Ahead
<1>3. i # j => Ahead(K, descending, i, j) \/ Ahead(K, descending, j, i)
  BY <1>1, BeforeOrders DEF Ahead
<1>4. ASSUME Ahead(K, descending, i, j), Ahead(K, descending, j, r)
      PROVE  Ahead(K, descending, i, r)
  <2> DEFINE B(x, y) == Before(K[x], K[y], descending)
  <2>1. /\ ~ (B(i, j) /\ B(j, i)) /\ ~ (B(j, r) /\ B(r, j)) /\ ~ (B(i, r) /\ B(r, i))
        /\ B(i, j) /\ B(j, r) => B(i, r)
        /\ ~ B(i, r) /\ ~ B(r, j) => ~ B(i, j)
        /\ ~ B(j, i) /\ ~ B(i, r) => ~ B(j, r)
        /\ ~ B(r, j) /\ ~ B(j, i) => ~ B(r, i)
    BY <1>1, BeforeOrders
  <2>2. /\ B(i, j) \/ (i < j /\ ~ B(j, i))
        /\ B(j, r) \/ (j < r /\ ~ B(r, j))
    BY <1>4 DEF Ahead
  <2>3. B(i, r) \/ (i < r /\ ~ B(r, i))
    <3> HIDE DEF B
    <3> QED BY <2>1, <2>2
  <2> QED BY <2>3 DEF Ahead
<1> QED BY <1>2, <1>3, <1>4

\* A row's place is the number of rows ahead of it: within the rows, and a
\* place of its own.
Place(K, descending, a, b, r) == a + Cardinality({i \in a .. b : Ahead(K, descending, i, r)})

LEMMA Places ==
    ASSUME EditsAssumption, NEW a \in Nat, NEW b \in Nat, NEW K \in [a .. b -> Content], NEW descending
    PROVE  /\ \A r \in a .. b : Place(K, descending, a, b, r) \in a .. b
           /\ \A r, q \in a .. b : Place(K, descending, a, b, r) = Place(K, descending, a, b, q) => r = q
<1> DEFINE R        == a .. b
           P(r)     == {i \in R : Ahead(K, descending, i, r)}
<1>1. /\ IsFiniteSet(R)
      /\ a <= b => Cardinality(R) = b - a + 1
  BY FS_Interval
<1>2. ASSUME NEW r \in R
      PROVE  /\ IsFiniteSet(P(r)) /\ Cardinality(P(r)) \in Nat
             /\ r \notin P(r)
             /\ IsFiniteSet(P(r) \cup {r}) /\ Cardinality(P(r) \cup {r}) = Cardinality(P(r)) + 1
  <2>1. IsFiniteSet(P(r))
    BY <1>1, FS_Subset
  <2>2. r \notin P(r)
    BY AheadOrders
  <2> QED BY <2>1, <2>2, FS_AddElement, FS_CardinalityType
<1>3. ASSUME NEW r \in R
      PROVE  a + Cardinality(P(r)) \in a .. b
  <2>1. P(r) \cup {r} \subseteq R
    OBVIOUS
  <2>2. Cardinality(P(r) \cup {r}) <= Cardinality(R)
    BY <1>1, <2>1, FS_Subset
  <2>3. a <= b
    OBVIOUS
  <2>4. PICK n, m : n = Cardinality(P(r)) /\ m = Cardinality(R)
    OBVIOUS
  <2>5. n \in Nat /\ n + 1 <= m /\ m = b - a + 1
    BY <1>1, <1>2, <2>2, <2>3, <2>4
  <2>6. a + n \in a .. b
    BY <2>5
  <2> QED BY <2>4, <2>6
<1>4. ASSUME NEW r \in R, NEW q \in R, Ahead(K, descending, r, q)
      PROVE  Cardinality(P(r)) < Cardinality(P(q))
  <2>1. P(r) \cup {r} \subseteq P(q)
    <3>1. \A i \in R : Ahead(K, descending, i, r) => Ahead(K, descending, i, q)
      BY <1>4, AheadOrders
    <3> QED BY <1>4, <3>1
  <2>2. Cardinality(P(r) \cup {r}) <= Cardinality(P(q))
    BY <1>2, <2>1, FS_Subset
  <2>3. PICK n, m : n = Cardinality(P(r)) /\ m = Cardinality(P(q))
    OBVIOUS
  <2>4. n \in Nat /\ m \in Nat /\ n + 1 <= m
    BY <1>2, <2>2, <2>3
  <2> QED BY <2>3, <2>4
<1>5. ASSUME NEW r \in R, NEW q \in R, r # q
      PROVE  Cardinality(P(r)) # Cardinality(P(q))
  <2>1. Ahead(K, descending, r, q) \/ Ahead(K, descending, q, r)
    BY <1>5, AheadOrders
  <2>2. Cardinality(P(r)) \in Nat /\ Cardinality(P(q)) \in Nat
    BY <1>2
  <2> HIDE DEF P, R
  <2> QED BY <1>4, <2>1, <2>2
<1>6. ASSUME NEW r \in R, NEW q \in R, a + Cardinality(P(r)) = a + Cardinality(P(q))
      PROVE  r = q
  <2>1. PICK n, m : n = Cardinality(P(r)) /\ m = Cardinality(P(q))
    OBVIOUS
  <2>2. n \in Nat /\ m \in Nat
    BY <1>2, <2>1
  <2>3. a + n = a + m
    BY <1>6, <2>1
  <2>4. n = m
    BY <2>2, <2>3
  <2> QED BY <1>5, <2>1, <2>4
<1> QED BY <1>3, <1>6 DEF Place

\* Where sorting takes a cell.
SortTo(s, region, key, descending, p) ==
    [p EXCEPT !.row = SortedTo(s, region, key, descending, p.row)]

LEMMA SortPlaces ==
    ASSUME IInv, EditsAssumption, NEW s \in Sheets, NEW region \in Regions, NEW key, NEW descending
    PROVE  /\ \A p \in Box(region) : SortTo(s, region, key, descending, p) \in Box(region)
           /\ \A p, q \in Box(region) :
                 SortTo(s, region, key, descending, p) = SortTo(s, region, key, descending, q) => p = q
<1>1. PICK a, b : a = region.top.row /\ b = region.bottom.row
  OBVIOUS
<1>2. a \in Nat /\ b \in Nat
  <2>1. region \in [top : Position, bottom : Position]
    BY DEF EditsAssumption
  <2> QED BY <2>1, <1>1 DEF Position
<1>3. PICK K : K = [i \in a .. b |-> Raw(s, Cell(i, key))]
  OBVIOUS
<1>4. K \in [a .. b -> Content]
  BY <1>3, RawSound DEF IInv
<1> DEFINE At(r) == Place(K, descending, a, b, r)
<1>5. /\ \A r \in a .. b : At(r) \in a .. b
      /\ \A r, q \in a .. b : At(r) = At(q) => r = q
  BY <1>2, <1>4, Places
<1>6. ASSUME NEW r \in a .. b
      PROVE  SortedTo(s, region, key, descending, r) = At(r)
  <2>1. \A i \in a .. b : K[i] = Raw(s, Cell(i, key))
    BY <1>3
  <2>2. \A i \in a .. b : Ahead(K, descending, i, r) <=>
            \/ Before(Raw(s, Cell(i, key)), Raw(s, Cell(r, key)), descending)
            \/ i < r /\ ~ Before(Raw(s, Cell(r, key)), Raw(s, Cell(i, key)), descending)
    BY Zenon, <2>1 DEF Ahead
  <2>3. {i \in a .. b : Ahead(K, descending, i, r)} = {i \in a .. b :
            \/ Before(Raw(s, Cell(i, key)), Raw(s, Cell(r, key)), descending)
            \/ i < r /\ ~ Before(Raw(s, Cell(r, key)), Raw(s, Cell(i, key)), descending)}
    BY Zenon, <2>2
  <2> QED BY Zenon, <1>1, <2>3 DEF SortedTo, Place
<1>7. \A p \in Box(region) : /\ p \in Position /\ p.row \in a .. b
                             /\ p.col \in region.top.col .. region.bottom.col
  BY <1>1, BoxPositions
<1> HIDE DEF At
<1>8. ASSUME NEW p \in Box(region)
      PROVE  /\ SortTo(s, region, key, descending, p) = Cell(At(p.row), p.col)
             /\ SortTo(s, region, key, descending, p) \in Box(region)
  <2>1. At(p.row) \in a .. b /\ p \in Position /\ p.col \in region.top.col .. region.bottom.col
    BY <1>5, <1>7
  <2>2. SortTo(s, region, key, descending, p) = Cell(At(p.row), p.col)
    BY <1>6, <1>7, <2>1 DEF SortTo, Cell, Position
  <2>3. Cell(At(p.row), p.col) \in Box(region)
    BY <2>1, <1>1 DEF Box
  <2> QED BY <2>2, <2>3
<1>9. ASSUME NEW p \in Box(region), NEW q \in Box(region),
             SortTo(s, region, key, descending, p) = SortTo(s, region, key, descending, q)
      PROVE  p = q
  <2>1. At(p.row) = At(q.row) /\ p.col = q.col
    BY <1>8, <1>9 DEF Cell
  <2>2. p.row = q.row
    BY <2>1, <1>5, <1>7
  <2> QED BY <2>1, <2>2, <1>7 DEF Position
<1> QED BY <1>8, <1>9

\* The cell that sorting takes to q, and what the region holds and wears then.
SortFrom(s, region, key, descending, q) ==
    CHOOSE p \in Box(region) : SortTo(s, region, key, descending, p) = q

SortedCells(s, region, key, descending) ==
    [q \in Box(region) |-> Raw(s, SortFrom(s, region, key, descending, q))]

SortedStyles(s, region, key, descending) ==
    [q \in (DOMAIN styles[s] \ Box(region))
              \cup {SortTo(s, region, key, descending, p) : p \in {p \in Box(region) : p \in DOMAIN styles[s]}} |->
        IF q \in Box(region) THEN styles[s][SortFrom(s, region, key, descending, q)]
        ELSE styles[s][q]]

LEMMA SortSteps ==
    ASSUME NEW s, NEW region, NEW key, NEW descending, Sort(s, region, key, descending)
    PROVE  /\ Aside /\ active' = active /\ clip' = clip
           /\ cells' = [cells EXCEPT ![s] = Put(@, SortedCells(s, region, key, descending))]
           /\ styles' = [styles EXCEPT ![s] = SortedStyles(s, region, key, descending)]
BY Zenon DEF Sort, Step, Aside, SortTo, SortFrom, SortedCells, SortedStyles

\* Sorting moves the cells of the region about within it, and their styles with
\* them.
LEMMA SortMoves ==
    ASSUME IInv, EditsAssumption, NEW s \in Sheets, NEW region \in Regions, NEW key, NEW descending
    PROVE  /\ DOMAIN SortedCells(s, region, key, descending) = Box(region)
           /\ \A q \in Box(region) : \E p :
                 SortedCells(s, region, key, descending)[q] = Raw(s, p)
           /\ \A p \in Box(region) :
                 SortedCells(s, region, key, descending)[SortTo(s, region, key, descending, p)] = Raw(s, p)
           /\ DOMAIN SortedStyles(s, region, key, descending) \subseteq Position
           /\ \A q \in DOMAIN SortedStyles(s, region, key, descending) :
                 \/ /\ q \notin Box(region) /\ q \in DOMAIN styles[s]
                    /\ SortedStyles(s, region, key, descending)[q] = styles[s][q]
                 \/ \E p \in Box(region) :
                       /\ p \in DOMAIN styles[s]
                       /\ q = SortTo(s, region, key, descending, p)
                       /\ SortedStyles(s, region, key, descending)[q] = styles[s][p]
<1> DEFINE To(p)   == SortTo(s, region, key, descending, p)
           From(q) == SortFrom(s, region, key, descending, q)
           goes    == {To(p) : p \in {p \in Box(region) : p \in DOMAIN styles[s]}}
<1>1. \A p \in Box(region) : To(p) \in Box(region) /\ From(To(p)) = p
  <2>1. \A p \in Box(region) : To(p) \in Box(region)
    BY SortPlaces
  <2>2. \A p, q \in Box(region) : To(p) = To(q) => p = q
    BY SortPlaces
  <2>3. ASSUME NEW p \in Box(region)
        PROVE  From(To(p)) = p
    <3>1. \E q \in Box(region) : To(q) = To(p)
      OBVIOUS
    <3>2. From(To(p)) = CHOOSE q \in Box(region) : To(q) = To(p)
      BY Zenon DEF SortFrom
    <3>3. From(To(p)) \in Box(region) /\ To(From(To(p))) = To(p)
      <4> HIDE DEF To, From
      <4> QED BY Zenon, <3>1, <3>2
    <3> QED BY Zenon, <2>2, <3>3
  <2> QED BY <2>1, <2>3
<1>2. /\ DOMAIN SortedCells(s, region, key, descending) = Box(region)
      /\ \A q \in Box(region) : SortedCells(s, region, key, descending)[q] = Raw(s, From(q))
  BY Zenon DEF SortedCells
<1>3. /\ DOMAIN SortedStyles(s, region, key, descending) = (DOMAIN styles[s] \ Box(region)) \cup goes
      /\ \A q \in (DOMAIN styles[s] \ Box(region)) \cup goes :
            SortedStyles(s, region, key, descending)[q]
                = IF q \in Box(region) THEN styles[s][From(q)] ELSE styles[s][q]
  BY Zenon DEF SortedStyles
<1> HIDE DEF From
<1>4. \A q \in goes : \E p \in Box(region) : p \in DOMAIN styles[s] /\ q = To(p)
  OBVIOUS
<1>5. DOMAIN SortedStyles(s, region, key, descending) \subseteq Position
  <2>1. goes \subseteq Box(region)
    BY <1>1, <1>4
  <2>2. DOMAIN styles[s] \subseteq Position
    BY DEF IInv, StylesOK
  <2> HIDE DEF goes
  <2> QED BY <1>3, <2>1, <2>2, BoxPositions
<1>6. ASSUME NEW q \in DOMAIN SortedStyles(s, region, key, descending)
      PROVE  \/ /\ q \notin Box(region) /\ q \in DOMAIN styles[s]
                /\ SortedStyles(s, region, key, descending)[q] = styles[s][q]
             \/ \E p \in Box(region) :
                   /\ p \in DOMAIN styles[s]
                   /\ q = To(p)
                   /\ SortedStyles(s, region, key, descending)[q] = styles[s][p]
  <2>1. CASE q \in goes
    <3>1. PICK p \in Box(region) : p \in DOMAIN styles[s] /\ q = To(p)
      BY <1>4, <2>1
    <3> HIDE DEF To, goes
    <3>2. q \in Box(region) /\ From(q) = p
      BY <1>1, <3>1
    <3> QED BY <1>3, <2>1, <3>1, <3>2
  <2>2. CASE q \notin goes
    <3> HIDE DEF To, goes
    <3> QED BY <1>3, <2>2
  <2> QED BY <2>1, <2>2
<1> QED BY <1>1, <1>2, <1>5, <1>6

LEMMA SortKeeps ==
    ASSUME IInv, EditsAssumption, NEW s \in Sheets, NEW region \in Regions, NEW key, NEW descending,
           Sort(s, region, key, descending)
    PROVE  IInv'
<1>1. PICK new, dress : /\ new = SortedCells(s, region, key, descending)
                        /\ dress = SortedStyles(s, region, key, descending)
  OBVIOUS
<1>2. /\ Aside /\ active' = active /\ clip' = clip
      /\ cells' = [cells EXCEPT ![s] = Put(@, new)]
      /\ styles' = [styles EXCEPT ![s] = dress]
  BY <1>1, SortSteps
<1>3. \A q \in DOMAIN new : q \in Position /\ new[q] \in Sound(s)
  BY <1>1, SortMoves, BoxPositions, RawSound DEF IInv
<1>4. CellsOK'
  BY <1>2, <1>3, PutCells DEF IInv, Aside
<1>5. DOMAIN dress \subseteq Position
  BY <1>1, SortMoves
<1>6. StylesOK'
  BY <1>2, <1>5 DEF IInv, StylesOK
<1>7. ClipOK'
  BY <1>2 DEF IInv, ClipOK
<1>8. LinesOK' /\ RulesOK' /\ NamesOK'
  BY <1>2, AsideKept
<1> QED BY <1>2, <1>4, <1>6, <1>7, <1>8 DEF IInv
-----------------------------------------------------------------------------
\* Styles, rules and names.

LEMMA StyleKeeps ==
    ASSUME IInv, NEW s \in Sheets, NEW dress, DOMAIN dress \subseteq Position,
           Aside, active' = active, cells' = cells, clip' = clip,
           styles' = [styles EXCEPT ![s] = dress]
    PROVE  IInv'
<1>1. StylesOK' /\ ClipOK'
  BY DEF IInv, StylesOK, ClipOK
<1> QED BY <1>1, AsideKept DEF IInv

LEMMA SetStyleKeeps ==
    ASSUME IInv, NEW s \in Sheets, NEW p \in Position, NEW style, SetStyle(s, p, style)
    PROVE  IInv'
<1>1. PICK dress : dress = With(styles[s], p, style)
  OBVIOUS
<1>2. /\ Aside /\ active' = active /\ cells' = cells /\ clip' = clip
      /\ styles' = [styles EXCEPT ![s] = dress]
  BY <1>1 DEF SetStyle, Step, Aside
<1>3. DOMAIN dress \subseteq Position
  BY <1>1 DEF With, IInv, StylesOK
<1> QED BY <1>2, <1>3, StyleKeeps

LEMMA ClearStyleKeeps ==
    ASSUME IInv, NEW s \in Sheets, NEW p, ClearStyle(s, p)
    PROVE  IInv'
<1>1. PICK dress : dress = [q \in DOMAIN styles[s] \ {p} |-> styles[s][q]]
  OBVIOUS
<1>2. /\ Aside /\ active' = active /\ cells' = cells /\ clip' = clip
      /\ styles' = [styles EXCEPT ![s] = dress]
  BY <1>1 DEF ClearStyle, Step, Aside
<1>3. DOMAIN dress \subseteq Position
  BY <1>1 DEF IInv, StylesOK
<1> QED BY <1>2, <1>3, StyleKeeps

\* What an edit of the rules or names of a workbook need not look at.
LEMMA BesideKept ==
    ASSUME IInv, active' = active, lines' = lines, steps' = steps + 1,
           cells' = cells, styles' = styles, clip' = clip
    PROVE  active' \in Sheets /\ LinesOK' /\ CellsOK' /\ StylesOK' /\ ClipOK'
<1>1. LinesOK' /\ CellsOK'
  BY SameLines, CellsKept DEF IInv
<1>2. StylesOK' /\ ClipOK'
  BY DEF IInv, StylesOK, ClipOK
<1> QED BY <1>1, <1>2 DEF IInv

LEMMA AddRuleKeeps ==
    ASSUME IInv, EditsAssumption, NEW s \in Sheets, NEW l \in {Formats(s), Checks(s)},
           NEW o \in Operands, Within(TargetSheet(o, s), o), AddRule(s, l, o)
    PROVE  IInv'
<1>1. /\ active' = active /\ lines' = lines /\ steps' = steps + 1 /\ names' = names
      /\ namesOwed' = namesOwed /\ cells' = cells /\ styles' = styles /\ clip' = clip
      /\ rules' = [rules EXCEPT ![l] = @ \cup {o}]
      /\ owed' = [owed EXCEPT ![l] = @ \cup {Covered(s, o)}]
      /\ o.sheet = Own /\ IsRegion(o) /\ InOrder(o)
  BY DEF AddRule, Step
<1>2. \A t, q : (Covered(t, q)' = Covered(t, q)) /\ (Within(t, q)' <=> Within(t, q))
  BY <1>1 DEF Covered, Within
<1>3. IsOperand(o)
  BY DEF EditsAssumption
<1>4. OnLines(s, o) /\ l \in Lists /\ l[1] = s
  BY <1>1, <1>3, ListOf DEF OnLines, Region, TargetSheet
<1>5. /\ rules = [k \in Lists |-> rules[k]] /\ owed = [k \in Lists |-> owed[k]]
      /\ \A k \in Lists : \A q \in rules[k] : q.sheet = Own /\ OnLines(k[1], q)
      /\ \A k \in Lists : {Covered(k[1], q) : q \in rules[k]} = owed[k]
  BY DEF IInv, RulesOK, RulesFollow
<1>6. /\ rules' = [k \in Lists |-> rules'[k]] /\ owed' = [k \in Lists |-> owed'[k]]
      /\ rules'[l] = rules[l] \cup {o} /\ owed'[l] = owed[l] \cup {Covered(s, o)}
      /\ \A k \in Lists \ {l} : rules'[k] = rules[k] /\ owed'[k] = owed[k]
  BY <1>1, <1>4, <1>5
<1>7. \A t, q : OnLines(t, q)' <=> OnLines(t, q)
  BY <1>2 DEF OnLines
<1>8. \A k \in Lists : \A q \in rules'[k] : q.sheet = Own /\ OnLines(k[1], q)
  BY <1>1, <1>4, <1>5, <1>6
<1>9. ASSUME NEW k \in Lists
      PROVE  {Covered(k[1], q)' : q \in rules'[k]} = owed'[k]
  <2>1. {Covered(k[1], q)' : q \in rules'[k]} = {Covered(k[1], q) : q \in rules'[k]}
    BY <1>2
  <2>2. CASE k = l
    <3>1. PICK old : old = rules[l]
      OBVIOUS
    <3>2. {Covered(s, q) : q \in old \cup {o}} = {Covered(s, q) : q \in old} \cup {Covered(s, o)}
      OBVIOUS
    <3>3. rules'[k] = old \cup {o} /\ owed'[k] = {Covered(s, q) : q \in old} \cup {Covered(s, o)}
      BY <2>2, <3>1, <1>4, <1>5, <1>6
    <3> QED BY <2>1, <2>2, <3>2, <3>3, <1>4
  <2>3. CASE k # l
    BY <2>1, <2>3, <1>5, <1>6
  <2> QED BY <2>2, <2>3
<1>10. RulesOK'
  BY <1>6, <1>7, <1>8, <1>9 DEF RulesOK, RulesFollow
<1>11. NamesOK'
  BY <1>1, NamesKept DEF IInv
<1> QED BY <1>1, <1>10, <1>11, BesideKept DEF IInv

LEMMA ClearFormatsKeeps ==
    ASSUME IInv, NEW s \in Sheets, ClearFormats(s)
    PROVE  IInv'
<1>1. /\ active' = active /\ lines' = lines /\ steps' = steps + 1 /\ names' = names
      /\ namesOwed' = namesOwed /\ cells' = cells /\ styles' = styles /\ clip' = clip
      /\ rules' = [rules EXCEPT ![Formats(s)] = {}] /\ owed' = [owed EXCEPT ![Formats(s)] = {}]
  BY DEF ClearFormats, Step
<1>2. \A t, q : (Covered(t, q)' = Covered(t, q)) /\ (OnLines(t, q)' <=> OnLines(t, q))
  BY <1>1 DEF Covered, Within, OnLines
<1>3. RulesOK'
  BY <1>1, <1>2 DEF IInv, RulesOK, RulesFollow
<1>4. NamesOK'
  BY <1>1, NamesKept DEF IInv
<1> QED BY <1>1, <1>3, <1>4, BesideKept DEF IInv

\* A rule meets a region exactly when its lines and those of the region do.
LEMMA MeetsTouches ==
    ASSUME LinesOK, EditsAssumption, NEW s \in Sheets, NEW region \in Regions,
           NEW o, OnLines(s, o)
    PROVE  Meets(o, region) <=> Touches(Covered(s, o), Selected(s, region))
<1>1. ASSUME NEW axis \in Axes
      PROVE  o.first[axis] <= region.bottom[axis] /\ region.top[axis] <= o.last[axis]
             <=> Covered(s, o)[axis] \cap Selected(s, region)[axis] # {}
  <2>1. PICK ids : ids = lines[s][axis]
    OBVIOUS
  <2>2. /\ ids \in Seq(Ids) /\ Len(ids) \in Nat
        /\ \A i, j \in 1 .. Len(ids) : ids[i] = ids[j] => i = j
    BY <2>1, LenProperties DEF LinesOK
  <2>3. PICK a, b, c, d : /\ a = o.first[axis] /\ b = o.last[axis]
                          /\ c = region.top[axis] /\ d = region.bottom[axis]
    OBVIOUS
  <2>4. a \in Int /\ b \in Int /\ o.form # "error"
    BY <2>3, RegionFields DEF OnLines
  <2>5. a <= b /\ a \in 0 .. Len(ids) - 1 /\ b \in 0 .. Len(ids) - 1
    BY <2>1, <2>3, <2>4 DEF OnLines, InOrder, Within
  <2>6. c \in Nat /\ d \in Nat /\ c <= d
    BY <2>3 DEF EditsAssumption, Position, Axes
  <2>7. Covered(s, o)[axis] = {ids[i + 1] : i \in (a .. b) \cap 0 .. Len(ids) - 1}
    BY <2>1, <2>3, <2>5 DEF Covered, Span
  <2>8. Selected(s, region)[axis] = {ids[i + 1] : i \in (c .. d) \cap 0 .. Len(ids) - 1}
    BY <2>1, <2>3, <2>6 DEF Selected, Covered, Span
  <2>9. ASSUME a <= d, c <= b
        PROVE  Covered(s, o)[axis] \cap Selected(s, region)[axis] # {}
    <3>1. PICK i : i = IF a <= c THEN c ELSE a
      OBVIOUS
    <3>2. i \in (a .. b) \cap (0 .. Len(ids) - 1) /\ i \in (c .. d) \cap (0 .. Len(ids) - 1)
      BY <2>2, <2>4, <2>5, <2>6, <2>9, <3>1
    <3>3. ids[i + 1] \in Covered(s, o)[axis]
      BY <2>7, <3>2
    <3>4. ids[i + 1] \in Selected(s, region)[axis]
      BY <2>8, <3>2
    <3> QED BY Zenon, <3>3, <3>4
  <2>10. ASSUME NEW x \in Covered(s, o)[axis] \cap Selected(s, region)[axis]
         PROVE  a <= d /\ c <= b
    <3>1. PICK i \in (a .. b) \cap 0 .. Len(ids) - 1 : x = ids[i + 1]
      BY <2>7
    <3>2. PICK j \in (c .. d) \cap 0 .. Len(ids) - 1 : x = ids[j + 1]
      BY <2>8
    <3>3. i = j
      <4>1. i + 1 \in 1 .. Len(ids) /\ j + 1 \in 1 .. Len(ids)
        BY <2>2
      <4>2. i + 1 = j + 1
        BY <2>2, <3>1, <3>2, <4>1
      <4> QED BY <4>2, <2>2
    <3> QED BY <2>4, <2>5, <2>6, <3>3
  <2> QED BY <2>3, <2>9, <2>10
<1> QED BY <1>1 DEF Meets, Touches

LEMMA ClearChecksKeeps ==
    ASSUME IInv, EditsAssumption, NEW s \in Sheets, NEW region \in Regions, ClearChecks(s, region)
    PROVE  IInv'
<1> DEFINE l == Checks(s)
           Left(o) == ~ Meets(o, region)
           Due(m)  == ~ Touches(m, Selected(s, region))
<1>1. /\ active' = active /\ lines' = lines /\ steps' = steps + 1 /\ names' = names
      /\ namesOwed' = namesOwed /\ cells' = cells /\ styles' = styles /\ clip' = clip
      /\ rules' = [rules EXCEPT ![l] = {o \in @ : Left(o)}]
      /\ owed' = [owed EXCEPT ![l] = {m \in @ : Due(m)}]
  BY DEF ClearChecks, Step
<1>2. l \in Lists /\ l[1] = s
  BY ListOf
<1>3. /\ rules = [k \in Lists |-> rules[k]] /\ owed = [k \in Lists |-> owed[k]]
      /\ \A k \in Lists : \A q \in rules[k] : q.sheet = Own /\ OnLines(k[1], q)
      /\ \A k \in Lists : {Covered(k[1], q) : q \in rules[k]} = owed[k]
  BY DEF IInv, RulesOK, RulesFollow
<1>4. \A q \in rules[l] : Left(q) <=> Due(Covered(s, q))
  BY <1>2, <1>3, MeetsTouches DEF IInv
<1> HIDE DEF l, Left, Due
<1>5. /\ rules' = [k \in Lists |-> rules'[k]] /\ owed' = [k \in Lists |-> owed'[k]]
      /\ rules'[l] = {o \in rules[l] : Left(o)} /\ owed'[l] = {m \in owed[l] : Due(m)}
      /\ \A k \in Lists \ {l} : rules'[k] = rules[k] /\ owed'[k] = owed[k]
  BY <1>1, <1>2, <1>3
<1>6. \A t, q : (Covered(t, q)' = Covered(t, q)) /\ (OnLines(t, q)' <=> OnLines(t, q))
  BY <1>1 DEF Covered, Within, OnLines
<1>7. \A k \in Lists : \A q \in rules'[k] : q.sheet = Own /\ OnLines(k[1], q)
  BY <1>3, <1>5
<1>8. {Covered(s, q) : q \in rules'[l]} = owed'[l]
  <2>1. {Covered(s, q) : q \in rules[l]} = owed[l]
    BY <1>2, <1>3
  <2>2. ASSUME NEW q \in rules'[l] PROVE Covered(s, q) \in owed'[l]
    BY <1>4, <1>5, <2>1
  <2>3. ASSUME NEW m \in owed'[l] PROVE \E q \in rules'[l] : m = Covered(s, q)
    <3>1. m \in owed[l] /\ Due(m)
      BY <1>5
    <3>2. PICK q \in rules[l] : m = Covered(s, q)
      BY <2>1, <3>1
    <3> QED BY <1>4, <1>5, <3>1, <3>2
  <2> QED BY <2>2, <2>3
<1>9. ASSUME NEW k \in Lists
      PROVE  {Covered(k[1], q) : q \in rules'[k]} = owed'[k]
  <2>1. CASE k = l
    BY <2>1, <1>2, <1>8
  <2>2. CASE k # l
    BY <2>2, <1>3, <1>5
  <2> QED BY <2>1, <2>2
<1>10. RulesOK'
  BY <1>5, <1>6, <1>7, <1>9 DEF RulesOK, RulesFollow
<1>11. NamesOK'
  BY <1>1, NamesKept DEF IInv
<1> QED BY <1>1, <1>10, <1>11, BesideKept DEF IInv

LEMMA DefineNameKeeps ==
    ASSUME IInv, EditsAssumption, NEW s \in Sheets, NEW n, NEW o \in Operands,
           Within(TargetSheet(o, s), o), DefineName(s, n, o)
    PROVE  IInv'
<1>1. PICK t : t = TargetSheet(o, s)
  OBVIOUS
<1>2. PICK due : due = [sheet |-> t, bare |-> o.sheet = Own,
                        strayed |-> ~ InOrder(o), means |-> Covered(t, o)]
  OBVIOUS
<1>3. /\ active' = active /\ lines' = lines /\ steps' = steps + 1 /\ rules' = rules
      /\ owed' = owed /\ cells' = cells /\ styles' = styles /\ clip' = clip
      /\ names' = With(names, n, o) /\ namesOwed' = With(namesOwed, n, due)
      /\ IsRegion(o)
  BY <1>1, <1>2 DEF DefineName, Step
<1>4. Region(o)
  BY <1>3 DEF EditsAssumption, Region
<1>5. t \in Sheets /\ o.sheet = (IF o.sheet = Own THEN Own ELSE t)
  <2>1. o.sheet \in Sheets \cup {Own}
    BY <1>4, RegionFields
  <2> QED BY <2>1, <1>1 DEF TargetSheet
<1>6. Covered(t, o) \in [Axes -> SUBSET Ids]
  <2>1. ASSUME NEW axis \in Axes, NEW i \in 0 .. Len(lines[t][axis]) - 1
        PROVE  lines[t][axis][i + 1] \in Ids
    <3>1. lines[t][axis] \in Seq(Ids) /\ Len(lines[t][axis]) \in Nat
      <4>1. lines[t][axis] \in Seq(Ids)
        BY <1>5 DEF IInv, LinesOK
      <4> QED BY <4>1, LenProperties
    <3>2. i + 1 \in 1 .. Len(lines[t][axis])
      BY <3>1
    <3> QED BY <3>1, <3>2, ElementOfSeq
  <2> QED BY <2>1 DEF Covered
<1>7. due \in Dues
  <2>1. InOrder(o) \in BOOLEAN
    BY DEF InOrder
  <2>2. (o.sheet = Own) \in BOOLEAN
    OBVIOUS
  <2> HIDE DEF InOrder
  <2> QED BY <2>1, <2>2, <1>2, <1>5, <1>6 DEF Dues
<1>8. /\ names' = [m \in DOMAIN names' |-> names'[m]]
      /\ DOMAIN names' = DOMAIN names \cup {n} /\ DOMAIN namesOwed' = DOMAIN namesOwed \cup {n}
      /\ names'[n] = o /\ namesOwed'[n] = due
      /\ \A m \in DOMAIN names \ {n} : names'[m] = names[m]
      /\ \A m \in DOMAIN namesOwed \ {n} : namesOwed'[m] = namesOwed[m]
      /\ namesOwed' = [m \in DOMAIN namesOwed' |-> namesOwed'[m]]
  BY <1>3 DEF With
<1>9. NameOK(n)'
  <2>1. /\ due.sheet = t /\ due.bare = (o.sheet = Own) /\ due.strayed = (~ InOrder(o))
        /\ due.means = Covered(t, o)
    BY <1>2
  <2>2. Covered(t, o)' = Covered(t, o) /\ (Within(t, o)' <=> Within(t, o))
    BY <1>3 DEF Covered, Within
  <2>3. ~ due.strayed => OnLines(t, o)' /\ Covered(t, o)' = due.means
    BY <2>1, <2>2, <1>1, <1>4 DEF OnLines
  <2>4. o.sheet = IF due.bare THEN Own ELSE due.sheet
    BY <2>1, <1>5
  <2> QED BY <2>1, <2>3, <2>4, <1>4, <1>8 DEF NameOK
<1>10. /\ DOMAIN names \subseteq DOMAIN namesOwed /\ namesOwed \in [DOMAIN namesOwed -> Dues]
       /\ \A m \in DOMAIN namesOwed : NameOK(m)
  BY DEF IInv, NamesOK
<1>11. ASSUME NEW m \in DOMAIN namesOwed'
       PROVE  NameOK(m)' /\ namesOwed'[m] \in Dues
  <2>1. CASE m = n
    BY <2>1, <1>7, <1>8, <1>9
  <2>2. CASE m # n
    <3>1. NameOK(m) /\ namesOwed[m] \in Dues /\ namesOwed'[m] = namesOwed[m]
      BY <2>2, <1>8, <1>10
    <3>2. (m \in DOMAIN names' <=> m \in DOMAIN names) /\ (m \in DOMAIN names => names'[m] = names[m])
      BY <2>2, <1>8
    <3> QED BY <3>1, <3>2, <1>3, NameKept
  <2> QED BY <2>1, <2>2
<1>12. NamesOK'
  <2>1. namesOwed' \in [DOMAIN namesOwed' -> Dues]
    BY <1>8, <1>11
  <2>2. DOMAIN names' \subseteq DOMAIN namesOwed'
    BY <1>8, <1>10
  <2> QED BY <2>1, <2>2, <1>8, <1>11 DEF NamesOK
<1>13. RulesOK'
  BY <1>3, RulesKept DEF IInv
<1> QED BY <1>3, <1>12, <1>13, BesideKept DEF IInv

LEMMA RemoveNameKeeps ==
    ASSUME IInv, NEW n, RemoveName(n)
    PROVE  IInv'
<1>1. /\ active' = active /\ lines' = lines /\ steps' = steps + 1 /\ rules' = rules
      /\ owed' = owed /\ cells' = cells /\ styles' = styles /\ clip' = clip
      /\ names' = [m \in DOMAIN names \ {n} |-> names[m]]
      /\ namesOwed' = [m \in DOMAIN namesOwed \ {n} |-> namesOwed[m]]
  BY DEF RemoveName, Step
<1>2. /\ DOMAIN names \subseteq DOMAIN namesOwed /\ namesOwed \in [DOMAIN namesOwed -> Dues]
      /\ \A m \in DOMAIN namesOwed : NameOK(m)
  BY DEF IInv, NamesOK
<1>3. ASSUME NEW m \in DOMAIN namesOwed'
      PROVE  NameOK(m)' /\ namesOwed'[m] \in Dues
  <2>1. m \in DOMAIN namesOwed /\ m # n /\ namesOwed'[m] = namesOwed[m]
    BY <1>1
  <2>2. (m \in DOMAIN names' <=> m \in DOMAIN names) /\ (m \in DOMAIN names => names'[m] = names[m])
    BY <2>1, <1>1
  <2> QED BY <2>1, <2>2, <1>1, <1>2, NameKept
<1>4. NamesOK'
  <2>1. names' = [m \in DOMAIN names' |-> names'[m]] /\ DOMAIN names' \subseteq DOMAIN namesOwed'
    BY <1>1, <1>2
  <2>2. namesOwed' \in [DOMAIN namesOwed' -> Dues]
    BY <1>1, <1>3
  <2> QED BY <2>1, <2>2, <1>3 DEF NamesOK
<1>5. RulesOK'
  BY <1>1, RulesKept DEF IInv
<1> QED BY <1>1, <1>4, <1>5, BesideKept DEF IInv
-----------------------------------------------------------------------------
\* The invariant.

LEMMA RestructureKeeps ==
    ASSUME IInv, EditsAssumption, NEW s, NEW axis, NEW index, NEW delta,
           Fits(s, axis, index, delta), Restructure(s, axis, index, delta)
    PROVE  IInv'
<1>1. Edited(s, axis, index, delta) /\ active' = active /\ clip' = clip
  BY RestructureSteps
<1>2. LinesOK'
  BY <1>1, EditedLinesOK DEF IInv
<1>3. ClipOK'
  BY <1>1 DEF IInv, ClipOK
<1>4. CellsOK' /\ StylesOK' /\ RulesOK' /\ NamesOK'
  BY RestructuredCells, RestructuredRules, RestructuredNames
<1> QED BY <1>1, <1>2, <1>3, <1>4 DEF IInv

\* InsertOrDelete names lines of the sheet.
LEMMA InsertOrDeleteFits ==
    ASSUME LinesOK, EditsAssumption, NEW s \in Sheets, NEW axis \in Axes, InsertOrDelete(s, axis)
    PROVE  \E index, delta : Fits(s, axis, index, delta) /\ Restructure(s, axis, index, delta)
<1>1. PICK len : len = Len(lines[s][axis])
  OBVIOUS
<1>2. len \in Nat
  <2>1. lines[s][axis] \in Seq(Ids)
    BY DEF LinesOK
  <2> QED BY <1>1, <2>1, LenProperties
<1>3. Inserts \subseteq Nat /\ Deletes \subseteq Nat
  BY DEF EditsAssumption
<1>4. \/ \E index \in 0 .. len, count \in Inserts : Restructure(s, axis, index, count)
      \/ \E index \in 0 .. len - 1, count \in Deletes :
            index + count <= len /\ Restructure(s, axis, index, - count)
  BY <1>1 DEF InsertOrDelete
<1>5. CASE \E index \in 0 .. len, count \in Inserts : Restructure(s, axis, index, count)
  <2>1. PICK index \in 0 .. len, count \in Inserts : Restructure(s, axis, index, count)
    BY <1>5
  <2>2. Fits(s, axis, index, count)
    BY <1>1, <1>2, <1>3 DEF Fits
  <2> QED BY <2>1, <2>2
<1>6. CASE \E index \in 0 .. len - 1, count \in Deletes :
              index + count <= len /\ Restructure(s, axis, index, - count)
  <2>1. PICK index \in 0 .. len - 1, count \in Deletes :
            index + count <= len /\ Restructure(s, axis, index, - count)
    BY <1>6
  <2>2. PICK delta : delta = - count
    OBVIOUS
  <2>3. delta \in Int /\ index \in 0 .. len /\ index - delta <= len
    BY <1>2, <1>3, <2>1, <2>2
  <2>4. Fits(s, axis, index, delta)
    BY <1>1, <2>3 DEF Fits
  <2> QED BY <2>1, <2>2, <2>4
<1> QED BY <1>4, <1>5, <1>6

LEMMA InitIInv ==
    ASSUME EditsAssumption, Init
    PROVE  IInv
<1>1. /\ active \in Sheets
      /\ cells = [s \in Sheets |-> <<>>] /\ styles = [s \in Sheets |-> <<>>]
      /\ rules = [l \in Lists |-> {}] /\ owed = [l \in Lists |-> {}]
      /\ names = <<>> /\ namesOwed = <<>> /\ clip = NoClip /\ steps = 0
      /\ lines = [s \in Sheets |-> [axis \in Axes |-> [i \in 1 .. Extent[axis] |-> <<0, i>>]]]
  BY DEF Init
<1>2. \A axis \in Axes : Extent[axis] \in Nat /\ Extent[axis] >= 1
  BY DEF EditsAssumption
<1>3. ASSUME NEW axis \in Axes
      PROVE  /\ [i \in 1 .. Extent[axis] |-> <<0, i>>] \in Seq(Ids)
             /\ Len([i \in 1 .. Extent[axis] |-> <<0, i>>]) = Extent[axis]
  <2>1. Extent[axis] \in Nat /\ Extent[axis] >= 1
    BY <1>2
  <2>2. \A i \in 1 .. Extent[axis] : <<0, i>> \in Ids
    BY <2>1 DEF Ids
  <2>3. [i \in 1 .. Extent[axis] |-> <<0, i>>] \in [1 .. Extent[axis] -> Ids]
    BY <2>2
  <2>4. PICK n, ids : n = Extent[axis] /\ ids = [i \in 1 .. n |-> <<0, i>>]
    OBVIOUS
  <2>5. ids \in Seq(Ids)
    BY <2>1, <2>3, <2>4, SeqDef
  <2>6. Len(ids) = n
    <3>1. PICK m : m = Len(ids)
      OBVIOUS
    <3>2. m \in Nat
      BY <2>5, <3>1, LenProperties
    <3>3. n \in Nat /\ n >= 1
      BY <2>1, <2>4
    <3>4. 1 .. m = 1 .. n
      BY <2>4, <2>5, <3>1, LenProperties
    <3>5. n <= m
      <4>1. n \in 1 .. m
        <5>1. n \in 1 .. n
          BY <3>3
        <5> QED BY Zenon, <5>1, <3>4
      <4> QED BY <4>1, <3>2, <3>3
    <3>6. m <= n
      <4>1. m \in 1 .. n
        <5>1. m \in 1 .. m
          BY <3>2, <3>3, <3>5
        <5> QED BY Zenon, <5>1, <3>4
      <4> QED BY <4>1, <3>2, <3>3
    <3>7. m = n
      BY <3>2, <3>3, <3>5, <3>6
    <3> QED BY <3>1, <3>7
  <2> QED BY <2>4, <2>5, <2>6
<1>4. LinesOK
  <2>1. lines \in [Sheets -> [Axes -> Seq(Ids)]]
    BY <1>1, <1>3
  <2>2. ASSUME NEW s \in Sheets, NEW axis \in Axes, NEW i \in 1 .. Len(lines[s][axis])
        PROVE  /\ lines[s][axis][i][1] <= steps
               /\ \A j \in 1 .. Len(lines[s][axis]) : lines[s][axis][i] = lines[s][axis][j] => i = j
    <3>1. lines[s][axis] = [k \in 1 .. Extent[axis] |-> <<0, k>>] /\ Len(lines[s][axis]) = Extent[axis]
      BY <1>1, <1>3
    <3>2. \A k \in 1 .. Extent[axis] : lines[s][axis][k] = <<0, k>>
      BY <3>1
    <3> QED BY <1>1, <3>1, <3>2
  <2> QED BY <1>1, <2>1, <2>2 DEF LinesOK
<1>5. CellsOK /\ StylesOK
  BY <1>1 DEF CellsOK, StylesOK
<1>6. RulesOK
  BY <1>1 DEF RulesOK, RulesFollow
<1>7. NamesOK
  BY <1>1 DEF NamesOK
<1>8. ClipOK
  BY <1>1 DEF ClipOK
<1> QED BY <1>1, <1>4, <1>5, <1>6, <1>7, <1>8 DEF IInv

LEMMA EditKeeps ==
    ASSUME IInv, EditsAssumption, NEW s \in Sheets, EditSheet(s)
    PROVE  IInv'
<1>1. Grid \subseteq Position
  BY DEF EditsAssumption
<1>2. ASSUME NEW p \in Grid, NEW n \in Numbers, Write(s, p, Plain(n))
      PROVE  IInv'
  <2>1. Plain(n) \in Sound(s)
    BY DEF Plain, Plains, Content, Sound, Faithful
  <2> QED BY <1>1, <1>2, <2>1, WriteKeeps
<1>3. ASSUME NEW p \in Grid, NEW o \in Operands, Within(TargetSheet(o, s), o),
             Write(s, p, Formula(s, o))
      PROVE  IInv'
  <2>1. IsOperand(o)
    BY DEF EditsAssumption
  <2>2. Formula(s, o) \in Sound(s)
    BY <1>3, <2>1, FormulaSound DEF IInv
  <2> QED BY <1>1, <1>3, <2>2, WriteKeeps
<1>4. ASSUME NEW p \in Grid, NEW st \in Styles, SetStyle(s, p, st)
      PROVE  IInv'
  BY <1>1, <1>4, SetStyleKeeps
<1>5. ASSUME NEW p \in Grid, ClearStyle(s, p)
      PROVE  IInv'
  BY <1>5, ClearStyleKeeps
<1>6. ASSUME NEW p \in Grid, Paste(s, p)
      PROVE  IInv'
  BY <1>1, <1>6, PasteKeeps
<1>7. ASSUME NEW region \in Regions,
             Copy(s, region) \/ Cut(s, region) \/ Clear(s, region) \/ ClearChecks(s, region)
      PROVE  IInv'
  BY <1>7, CopyKeeps, CutKeeps, ClearKeeps, ClearChecksKeeps
<1>8. ASSUME NEW region \in Regions, NEW key, NEW descending, Sort(s, region, key, descending)
      PROVE  IInv'
  BY <1>8, SortKeeps
<1>9. ASSUME NEW region \in Regions, NEW axis \in Axes, Fill(s, region, axis)
      PROVE  IInv'
  BY <1>9, FillKeeps
<1>10. ASSUME NEW o \in Operands, Within(TargetSheet(o, s), o),
              \/ \E l \in {Formats(s), Checks(s)} : AddRule(s, l, o)
              \/ \E n \in Names : DefineName(s, n, o)
       PROVE  IInv'
  BY <1>10, AddRuleKeeps, DefineNameKeeps
<1>11. ASSUME ClearFormats(s)
       PROVE  IInv'
  BY <1>11, ClearFormatsKeeps
<1> QED BY Zenon, <1>2, <1>3, <1>4, <1>5, <1>6, <1>7, <1>8, <1>9, <1>10, <1>11 DEF EditSheet

LEMMA NextKeeps ==
    ASSUME IInv, EditsAssumption, [Next]_vars
    PROVE  IInv'
<1>1. CASE EditSheet(active)
  BY <1>1, EditKeeps DEF IInv
<1>2. ASSUME NEW axis \in Axes, InsertOrDelete(active, axis)
      PROVE  IInv'
  <2>1. LinesOK /\ active \in Sheets
    BY DEF IInv
  <2>2. PICK index, delta : /\ Fits(active, axis, index, delta)
                            /\ Restructure(active, axis, index, delta)
    BY <1>2, <2>1, InsertOrDeleteFits
  <2> QED BY <2>2, RestructureKeeps
<1>3. ASSUME NEW s \in Sheets, SwitchSheet(s)
      PROVE  IInv'
  BY <1>3, SwitchSheetKeeps
<1>4. ASSUME NEW n \in Names, RemoveName(n)
      PROVE  IInv'
  BY <1>4, RemoveNameKeeps
<1>5. CASE UNCHANGED vars
  <2>1. /\ active' = active /\ lines' = lines /\ steps' = steps /\ rules' = rules
        /\ owed' = owed /\ cells' = cells /\ styles' = styles /\ clip' = clip
        /\ names' = names /\ namesOwed' = namesOwed
    BY <1>5 DEF vars
  <2>2. \A t, o : (Covered(t, o)' = Covered(t, o)) /\ (Within(t, o)' <=> Within(t, o))
    BY <2>1 DEF Covered, Within
  <2>3. \A t : Sound(t)' = Sound(t)
    BY <2>2 DEF Sound, Faithful
  <2>4. LinesOK' /\ CellsOK' /\ StylesOK' /\ ClipOK'
    BY <2>1, <2>3 DEF IInv, LinesOK, CellsOK, StylesOK, ClipOK
  <2>5. RulesOK' /\ NamesOK'
    BY <2>1, RulesKept, NamesKept DEF IInv
  <2> QED BY <2>1, <2>4, <2>5 DEF IInv
<1> QED BY <1>1, <1>2, <1>3, <1>4, <1>5 DEF Next

\* The inductive invariant holds always: lines keep their identities, and what
\* cells, clip, rules and names hold is sound and lies on the lines it is owed
\* (Sheet._restructure and the editing commands of DocumentMixin).
THEOREM Invariant == Spec => []IInv
<1>1. EditsAssumption
  BY EditsAssumption
<1>2. Init => IInv
  BY <1>1, InitIInv
<1>3. IInv /\ [Next]_vars => IInv'
  BY <1>1, NextKeeps
<1> QED BY <1>2, <1>3, PTL DEF Spec

\* A formula covers, wherever it has been moved and whatever was inserted and
\* deleted since, the lines it was written for (Sheet._restructure).
THEOREM FormulasKeepLines == Spec => []FormulasFollow
<1>1. IInv => FormulasFollow
  BY DEF IInv, CellsOK, Sound, Faithful, FormulasFollow
<1> QED BY <1>1, Invariant, PTL

\* So do conditional formats and validations.
THEOREM RulesKeepLines == Spec => []RulesFollow
<1>1. IInv => RulesFollow
  BY DEF IInv, RulesOK
<1> QED BY <1>1, Invariant, PTL

\* So do the names that no edit of another sheet has taken for its own.
THEOREM NamesKeepLines == Spec => []NamesFollow
<1>1. IInv => NamesFollow
  BY NamesFollowFrom DEF IInv
<1> QED BY <1>1, Invariant, PTL
-----------------------------------------------------------------------------
\* What a step does to cells.

\* Raw on a sheet's dictionary.
Held(f, q) == IF q \in DOMAIN f THEN f[q] ELSE Empty

LEMMA RawHeld ==
    ASSUME NEW s, NEW q
    PROVE  Raw(s, q) = Held(cells[s], q) /\ Raw(s, q)' = Held(cells'[s], q)
BY DEF Raw, Held

LEMMA HeldAfterPut ==
    ASSUME CellsOK, NEW s \in Sheets, NEW new, cells' = [cells EXCEPT ![s] = Put(@, new)],
           NEW q \in DOMAIN new
    PROVE  Held(cells'[s], q) = new[q]
<1>1. cells'[s] = Put(cells[s], new)
  BY DEF CellsOK
<1>2. PICK filled : filled = {p \in DOMAIN new : new[p] # Empty}
  OBVIOUS
<1>3. cells'[s] = [p \in (DOMAIN cells[s] \ DOMAIN new) \cup filled |->
                      IF p \in filled THEN new[p] ELSE cells[s][p]]
  BY <1>1, <1>2 DEF Put
<1> QED BY <1>2, <1>3 DEF Held

LEMMA HeldBeside ==
    ASSUME CellsOK, NEW s \in Sheets, NEW new, cells' = [cells EXCEPT ![s] = Put(@, new)],
           NEW q, q \notin DOMAIN new
    PROVE  Held(cells'[s], q) = Held(cells[s], q)
<1>1. cells'[s] = Put(cells[s], new)
  BY DEF CellsOK
<1>2. PICK filled : filled = {p \in DOMAIN new : new[p] # Empty}
  OBVIOUS
<1>3. cells'[s] = [p \in (DOMAIN cells[s] \ DOMAIN new) \cup filled |->
                      IF p \in filled THEN new[p] ELSE cells[s][p]]
  BY <1>1, <1>2 DEF Put
<1> QED BY <1>2, <1>3 DEF Held

\* A copied formula has the form of its source.
LEMMA CopiedForm ==
    ASSUME NEW c \in Content, NEW s, NEW by \in Vectors, NEW p \in Position, NEW q \in Position,
           q.row = p.row + by.row, q.col = p.col + by.col
    PROVE  SameForm(c, p, Copied(c, s, by), q)
<1> SUFFICES ASSUME c.kind = "formula", c.operand.form # "spill",
                    Copied(c, s, by).operand.form # "error"
             PROVE  /\ Relative(Copied(c, s, by).operand.first, q) = Relative(c.operand.first, p)
                    /\ Relative(Copied(c, s, by).operand.last, q) = Relative(c.operand.last, p)
                    /\ Copied(c, s, by).operand.form = c.operand.form
  BY Zenon DEF SameForm
<1>1. PICK o, new : o = c.operand /\ new = ShiftOperand(o, by)
  OBVIOUS
<1>2. Copied(c, s, by).operand = new /\ IsOperand(o)
  BY <1>1, FormulaFields DEF Copied, Formula
<1>3. o.form # "error"
  <2>1. o.form = "error" => new = o
    BY <1>1 DEF ShiftOperand, IsRegion
  <2> QED BY <2>1, <1>2
<1>4. /\ o \in [form : {"cell", "range", "spill"}, sheet : Sheets \cup {Own},
                first : Refs, last : Refs]
      /\ o.form # "spill"
  BY <1>1, <1>2, <1>3, OperandFields
<1>5. by.row \in Int /\ by.col \in Int
  BY DEF Vectors
<1>6. CASE by.row = 0 /\ by.col = 0
  <2>1. new = o
    BY <1>1, <1>3, <1>6 DEF ShiftOperand, IsRegion
  <2>2. q = p
    BY <1>6 DEF Position
  <2> QED BY <2>1, <2>2, <1>1, <1>2
<1>7. CASE by.row # 0 \/ by.col # 0
  <2>1. PICK first, last : first = Moved(o.first, by) /\ last = Moved(o.last, by)
    OBVIOUS
  <2>2. \/ new = [o EXCEPT !.first = first, !.last = last]
        \/ new = RefError
    <3>1. IsRegion(o)
      BY <1>4 DEF IsRegion
    <3>2. new = IF OnSheet(first) /\ OnSheet(last)
                THEN [o EXCEPT !.first = first, !.last = last] ELSE RefError
      BY <1>1, <1>3, <1>4, <1>7, <2>1, <3>1 DEF ShiftOperand
    <3> QED BY <3>2
  <2>3. new # RefError
    BY <1>2 DEF RefError
  <2>4. new.first = first /\ new.last = last /\ new.form = o.form
    BY <2>2, <2>3, <1>4
  <2>5. ASSUME NEW ref \in Refs
        PROVE  Relative(Moved(ref, by), q) = Relative(ref, p)
    <3>1. PICK to : to = Moved(ref, by)
      OBVIOUS
    <3>2. /\ to.fixed = ref.fixed
          /\ to.row = IF "row" \in ref.fixed THEN ref.row ELSE ref.row + by.row
          /\ to.col = IF "col" \in ref.fixed THEN ref.col ELSE ref.col + by.col
      BY <3>1 DEF Moved, Refs
    <3>3. /\ ref.row \in Int /\ ref.col \in Int /\ p.row \in Int /\ p.col \in Int
      BY DEF Refs, Position
    <3>4. ASSUME NEW axis \in Axes, axis \notin ref.fixed
          PROVE  to[axis] - q[axis] = ref[axis] - p[axis]
      <4>1. CASE axis = "row"
        BY <4>1, <3>2, <3>3, <3>4, <1>5
      <4>2. CASE axis = "col"
        BY <4>2, <3>2, <3>3, <3>4, <1>5
      <4> QED BY <4>1, <4>2 DEF Axes
    <3>5. ASSUME NEW axis \in Axes, axis \in ref.fixed
          PROVE  to[axis] = ref[axis]
      <4>1. CASE axis = "row"
        BY <4>1, <3>2, <3>5
      <4>2. CASE axis = "col"
        BY <4>2, <3>2, <3>5
      <4> QED BY <4>1, <4>2 DEF Axes
    <3> QED BY <3>1, <3>2, <3>4, <3>5 DEF Relative
  <2>6. Relative(first, q) = Relative(o.first, p) /\ Relative(last, q) = Relative(o.last, p)
    BY <2>1, <2>5, <1>4
  <2> QED BY <2>4, <2>6, <1>1, <1>2
<1> QED BY <1>5, <1>6, <1>7

LEMMA PastedForm ==
    ASSUME IInv, EditsAssumption, NEW at \in Grid, Paste(active, at), NEW p \in DOMAIN clip.grid
    PROVE  LET by == By(clip.origin, at)
               q  == Cell(p.row + by.row, p.col + by.col)
           IN  SameForm(clip.grid[p], p, Held(cells'[active'], q), q)
<1>1. PICK by : by = By(clip.origin, at)
  OBVIOUS
<1>2. PICK q : q = Cell(p.row + by.row, p.col + by.col)
  OBVIOUS
<1>3. PICK s : s = active
  OBVIOUS
<1>4. PICK new : new = [q2 \in {Cell(p2.row + by.row, p2.col + by.col) : p2 \in DOMAIN clip.grid} |->
                           Copied(clip.grid[Cell(q2.row - by.row, q2.col - by.col)], s, by)]
  OBVIOUS
<1>5. /\ clip # NoClip /\ active' = s /\ s \in Sheets
      /\ cells' = [cells EXCEPT ![s] = Put(@, new)]
  BY <1>1, <1>3, <1>4 DEF Paste, IInv
<1>6. /\ clip.origin \in Position /\ p \in Position
      /\ p.row >= clip.origin.row /\ p.col >= clip.origin.col
      /\ clip.grid[p] \in Content
  BY <1>5 DEF IInv, ClipOK
<1>7. at \in Position
  BY DEF EditsAssumption
<1>8. /\ by \in Vectors
      /\ by.row = at.row - clip.origin.row /\ by.col = at.col - clip.origin.col
  BY <1>1, <1>6, <1>7 DEF By, Vectors, Position
<1>9. /\ q \in Position /\ Cell(q.row - by.row, q.col - by.col) = p
      /\ q.row = p.row + by.row /\ q.col = p.col + by.col
  BY <1>2, <1>6, <1>7, <1>8 DEF Cell, Position
<1>10. q \in DOMAIN new /\ new[q] = Copied(clip.grid[p], s, by)
  BY <1>2, <1>4, <1>9
<1>11. Held(cells'[s], q) = Copied(clip.grid[p], s, by)
  <2>1. CellsOK /\ s \in Sheets /\ cells' = [cells EXCEPT ![s] = Put(@, new)]
    BY <1>5 DEF IInv
  <2>2. q \in DOMAIN new
    BY <1>10
  <2>3. Held(cells'[s], q) = new[q]
    BY <2>1, <2>2, HeldAfterPut, ZenonT(30)
  <2> QED BY <2>3, <1>10
<1>12. SameForm(clip.grid[p], p, Copied(clip.grid[p], s, by), q)
  BY <1>6, <1>8, <1>9, CopiedForm
<1>13. SameForm(clip.grid[p], p, Held(cells'[active'], q), q)
  BY <1>5, <1>11, <1>12
<1> QED BY <1>1, <1>2, <1>13

LEMMA FilledForm ==
    ASSUME IInv, EditsAssumption, NEW region \in Regions, NEW axis \in Axes,
           Fill(active, region, axis), NEW q \in Box(region)
    PROVE  LET p == [q EXCEPT ![axis] = region.top[axis]]
           IN  SameForm(Held(cells[active], p), p, Held(cells'[active'], q), q)
<1>1. PICK p : p = Source(q, region, axis)
  OBVIOUS
<1>2. PICK s : s = active
  OBVIOUS
<1>3. PICK goal : goal = {r \in Box(region) : r[axis] # region.top[axis]}
  OBVIOUS
<1>4. PICK new : new = [r \in goal |-> Copied(Raw(s, Source(r, region, axis)), s,
                                              By(Source(r, region, axis), r))]
  OBVIOUS
<1>5. active' = s /\ s \in Sheets /\ cells' = [cells EXCEPT ![s] = Put(@, new)]
  <2>1. active' = s /\ s \in Sheets
    BY <1>2 DEF Fill, IInv
  <2>2. cells' = [cells EXCEPT ![s] = Put(@, new)]
    BY Zenon, <1>2, <1>3, <1>4 DEF Fill, Source
  <2> QED BY <2>1, <2>2
<1>6. p \in Position /\ q \in Position /\ By(p, q) \in Vectors
  BY <1>1, Sources
<1>7. CASE q \in goal
  <2>1. new[q] = Copied(Raw(s, p), s, By(p, q)) /\ q \in DOMAIN new
    BY <1>1, <1>4, <1>7
  <2>2. Held(cells'[s], q) = new[q]
    <3>1. CellsOK /\ s \in Sheets /\ cells' = [cells EXCEPT ![s] = Put(@, new)]
      BY <1>5 DEF IInv
    <3> QED BY <3>1, <2>1, HeldAfterPut
  <2>3. q.row = p.row + By(p, q).row /\ q.col = p.col + By(p, q).col
    BY <1>6 DEF By, Position
  <2>4. Raw(s, p) \in Content /\ Raw(s, p) = Held(cells[s], p)
    BY <1>5, RawSound, RawHeld DEF IInv
  <2>5. SameForm(Raw(s, p), p, Copied(Raw(s, p), s, By(p, q)), q)
    BY <1>6, <2>3, <2>4, CopiedForm
  <2>6. SameForm(Held(cells[active], p), p, Held(cells'[active'], q), q)
    BY <1>2, <1>5, <2>1, <2>2, <2>4, <2>5
  <2> QED BY <2>6, <1>1 DEF Source
<1>8. CASE q \notin goal
  <2>1. q[axis] = region.top[axis]
    BY <1>3, <1>8
  <2>2. p = q
    BY <1>1, <1>6, <2>1 DEF Source, Position, Axes
  <2>3. Held(cells'[s], q) = Held(cells[s], q)
    BY <1>4, <1>5, <1>8, HeldBeside DEF IInv
  <2>4. \A c : SameForm(c, q, c, q)
    BY Zenon DEF SameForm
  <2>5. SameForm(Held(cells[active], p), p, Held(cells'[active'], q), q)
    BY <1>2, <1>5, <2>2, <2>3, <2>4
  <2> QED BY <2>5, <1>1 DEF Source
<1> QED BY <1>7, <1>8

\* Whatever was inserted or deleted between the copy and the paste, what is
\* pasted or filled has the relative form of its source (shift_formula).
THEOREM CopiesAlike == Spec => CopiesKeepForm
<1> DEFINE Alike ==
        cells'[active] # cells[active] =>
            /\ \A at \in Grid : Paste(active, at) =>
                 \A p \in DOMAIN clip.grid :
                     LET by == By(clip.origin, at)
                         q  == Cell(p.row + by.row, p.col + by.col)
                     IN  SameForm(clip.grid[p], p, Raw(active, q)', q)
            /\ \A region \in Regions, axis \in Axes : Fill(active, region, axis) =>
                 \A q \in Box(region) :
                     LET p == [q EXCEPT ![axis] = region.top[axis]]
                     IN  SameForm(Raw(active, p), p, Raw(active, q)', q)
<1>1. ASSUME IInv
      PROVE  Alike
  <2>1. EditsAssumption
    BY EditsAssumption
  <2>2. ASSUME NEW at \in Grid, Paste(active, at), NEW p \in DOMAIN clip.grid
        PROVE  LET by == By(clip.origin, at)
                   q  == Cell(p.row + by.row, p.col + by.col)
               IN  SameForm(clip.grid[p], p, Raw(active, q)', q)
    <3> DEFINE by == By(clip.origin, at)
               q  == Cell(p.row + by.row, p.col + by.col)
    <3>1. SameForm(clip.grid[p], p, Held(cells'[active'], q), q)
      BY <1>1, <2>1, <2>2, PastedForm
    <3>2. SameForm(clip.grid[p], p, Raw(active, q)', q)
      <4>1. clip' = clip
        BY <2>2 DEF Paste
      <4>2. q' = q
        BY <4>1 DEF By, Cell
      <4>3. Raw(active, q)' = Held(cells'[active'], q')
        <5> HIDE DEF q
        <5> QED BY DEF Raw, Held
      <4> QED BY <3>1, <4>2, <4>3
    <3> QED BY <3>2
  <2>3. ASSUME NEW region \in Regions, NEW axis \in Axes, Fill(active, region, axis),
               NEW q \in Box(region)
        PROVE  LET p == [q EXCEPT ![axis] = region.top[axis]]
               IN  SameForm(Raw(active, p), p, Raw(active, q)', q)
    BY Zenon, <1>1, <2>1, <2>3, FilledForm DEF Raw, Held
  <2> QED BY Zenon, <2>2, <2>3
<1>2. CopiesKeepForm <=> [][Alike]_vars
  BY DEF CopiesKeepForm
<1>3. IInv /\ [Next]_vars => [Alike]_vars
  BY <1>1
<1> QED BY <1>2, <1>3, Invariant, PTL DEF Spec
-----------------------------------------------------------------------------
\* Styles move with texts.

DressedIn(f, g) == {<<Shown(Held(f, p)), g[p]>> : p \in DOMAIN g}

LEMMA DressedHeld ==
    ASSUME NEW s
    PROVE  Dressed(s) = DressedIn(cells[s], styles[s]) /\ Dressed(s)' = DressedIn(cells'[s], styles'[s])
<1>1. /\ \A p : Raw(s, p) = Held(cells[s], p)
      /\ \A p : Raw(s, p)' = Held(cells'[s], p)
  BY DEF Raw, Held
<1> QED BY <1>1 DEF Dressed, DressedIn

\* Two positions that survive on lines of their own do not meet.
LEMMA GoesApart ==
    ASSUME NEW p \in Position, NEW q \in Position, NEW axis \in Axes, NEW index \in Nat, NEW delta \in Int,
           Survives(p[axis], index, delta), Survives(q[axis], index, delta),
           Goes(p, axis, index, delta) = Goes(q, axis, index, delta)
    PROVE  p = q
<1>1. /\ p[axis] \in Nat /\ q[axis] \in Nat
      /\ \A other \in Axes \ {axis} : p[other] = q[other]
      /\ ShiftCoord(p[axis], index, delta) = ShiftCoord(q[axis], index, delta)
  BY DEF Goes, Position, Axes
<1>2. /\ p[axis] < q[axis] => ShiftCoord(p[axis], index, delta) < ShiftCoord(q[axis], index, delta)
      /\ q[axis] < p[axis] => ShiftCoord(q[axis], index, delta) < ShiftCoord(p[axis], index, delta)
  BY <1>1, SurvivorsKeepOrder
<1>3. ShiftCoord(p[axis], index, delta) \in Nat
  BY <1>1, ShiftedLines
<1>4. p[axis] = q[axis]
  BY <1>1, <1>2, <1>3
<1> QED BY <1>1, <1>4 DEF Position, Axes

\* What a structural edit shows at the new place of a position that survives.
LEMMA HeldRelocated ==
    ASSUME NEW f, DOMAIN f \subseteq Position, NEW axis \in Axes, NEW index \in Nat, NEW delta \in Int,
           NEW p \in Position, Survives(p[axis], index, delta)
    PROVE  Held(Relocated(f, axis, index, delta), Goes(p, axis, index, delta)) = Held(f, p)
<1>1. PICK new, q : new = Relocated(f, axis, index, delta) /\ q = Goes(p, axis, index, delta)
  OBVIOUS
<1>2. /\ \A r \in DOMAIN new : \E o \in DOMAIN f : /\ Survives(o[axis], index, delta)
                                                  /\ r = Goes(o, axis, index, delta)
                                                  /\ new[r] = f[o]
      /\ \A o \in DOMAIN f : Survives(o[axis], index, delta) =>
            /\ Goes(o, axis, index, delta) \in DOMAIN new
            /\ new[Goes(o, axis, index, delta)] = f[o]
  BY <1>1, RelocatedEntries
<1>3. CASE p \in DOMAIN f
  BY <1>1, <1>2, <1>3 DEF Held
<1>4. CASE p \notin DOMAIN f
  <2>1. ASSUME q \in DOMAIN new
        PROVE  FALSE
    <3>1. PICK o \in DOMAIN f : Survives(o[axis], index, delta) /\ q = Goes(o, axis, index, delta)
      BY <1>2, <2>1
    <3>2. o = p
      BY <1>1, <3>1, GoesApart
    <3> QED BY <3>1, <3>2, <1>4
  <2> QED BY <1>1, <1>4, <2>1 DEF Held
<1> QED BY <1>3, <1>4

LEMMA RestructureDresses ==
    ASSUME IInv, EditsAssumption, NEW s, NEW axis, NEW index, NEW delta,
           Fits(s, axis, index, delta), Restructure(s, axis, index, delta), NEW t \in Sheets
    PROVE  DressedIn(cells'[t], styles'[t]) \subseteq DressedIn(cells[t], styles[t])
<1>1. /\ Edited(s, axis, index, delta) /\ LinesOK
      /\ s \in Sheets /\ axis \in Axes /\ index \in Nat /\ delta \in Int
  BY RestructureSteps, EditedLines DEF IInv
<1>2. PICK kept : kept = IF t = s THEN Relocated(cells[t], axis, index, delta) ELSE cells[t]
  OBVIOUS
<1>3. cells'[t] = [p \in DOMAIN kept |-> Carried(kept[p], t, s, axis, index, delta)]
  BY <1>2, RestructureSteps
<1>4. /\ DOMAIN cells[t] \subseteq Position /\ DOMAIN styles[t] \subseteq Position
      /\ \A p \in DOMAIN cells[t] : cells[t][p] \in Sound(t)
  BY DEF IInv, CellsOK, StylesOK
<1>5. \A p \in DOMAIN kept : kept[p] \in Sound(t)
  <2>1. CASE t = s
    <3>1. \A q \in DOMAIN kept : \E p \in DOMAIN cells[t] : kept[q] = cells[t][p]
      BY <2>1, <1>1, <1>2, <1>4, RelocatedFrom, SMTT(30)
    <3> QED BY <3>1, <1>4
  <2>2. CASE t # s
    BY <2>2, <1>2, <1>4
  <2> QED BY <2>1, <2>2
<1>6. \A p : Shown(Held(cells'[t], p)) = Shown(Held(kept, p))
  <2>1. ASSUME NEW p \in DOMAIN kept
        PROVE  Shown(Held(cells'[t], p)) = Shown(Held(kept, p))
    <3>1. Held(cells'[t], p) = Carried(kept[p], t, s, axis, index, delta) /\ Held(kept, p) = kept[p]
      BY <1>3 DEF Held
    <3>2. Shown(Carried(kept[p], t, s, axis, index, delta)) = Shown(kept[p])
      BY <1>1, <1>5, ContentFollows
    <3> QED BY <3>1, <3>2
  <2>2. ASSUME NEW p, p \notin DOMAIN kept
        PROVE  Held(cells'[t], p) = Held(kept, p)
    BY <2>2, <1>3 DEF Held
  <2> QED BY <2>1, <2>2
<1>7. ASSUME NEW q \in DOMAIN styles'[t]
      PROVE  \E p \in DOMAIN styles[t] : /\ styles'[t][q] = styles[t][p]
                                         /\ Held(kept, q) = Held(cells[t], p)
  <2>1. styles' = [styles EXCEPT ![s] = Relocated(@, axis, index, delta)]
    BY DEF Restructure
  <2>2. CASE t = s
    <3>1. styles'[t] = Relocated(styles[t], axis, index, delta)
      BY <2>1, <2>2, <1>1 DEF IInv, StylesOK
    <3>2. PICK p \in DOMAIN styles[t] : /\ Survives(p[axis], index, delta)
                                        /\ q = Goes(p, axis, index, delta)
                                        /\ styles'[t][q] = styles[t][p]
      BY <3>1, <1>1, <1>4, RelocatedEntries, SMTT(30)
    <3>3. p \in Position
      BY <1>4
    <3>4. Held(Relocated(cells[t], axis, index, delta), Goes(p, axis, index, delta)) = Held(cells[t], p)
      BY <3>2, <3>3, <1>1, <1>4, HeldRelocated
    <3> QED BY <2>2, <3>2, <3>4, <1>2
  <2>3. CASE t # s
    BY <2>1, <2>3, <1>2 DEF IInv, StylesOK
  <2> QED BY <2>2, <2>3
<1> QED BY <1>6, <1>7 DEF DressedIn

LEMMA SortDresses ==
    ASSUME IInv, EditsAssumption, NEW s \in Sheets, NEW region \in Regions, NEW key, NEW descending,
           Sort(s, region, key, descending), NEW t \in Sheets
    PROVE  DressedIn(cells'[t], styles'[t]) \subseteq DressedIn(cells[t], styles[t])
<1>1. PICK new, dress : /\ new = SortedCells(s, region, key, descending)
                        /\ dress = SortedStyles(s, region, key, descending)
  OBVIOUS
<1>2. /\ cells' = [cells EXCEPT ![s] = Put(@, new)]
      /\ styles' = [styles EXCEPT ![s] = dress]
  BY <1>1, SortSteps
<1>3. CellsOK /\ cells = [u \in Sheets |-> cells[u]] /\ styles = [u \in Sheets |-> styles[u]]
  BY DEF IInv, CellsOK, StylesOK
<1>4. CASE t = s
  <2>1. styles'[t] = dress
    BY <1>2, <1>3, <1>4
  <2>2. ASSUME NEW q \in DOMAIN dress
        PROVE  \E p \in DOMAIN styles[s] : /\ dress[q] = styles[s][p]
                                           /\ Held(cells'[s], q) = Held(cells[s], p)
    <3>1. DOMAIN new = Box(region)
      BY <1>1, SortMoves
    <3>2. \/ q \notin Box(region) /\ q \in DOMAIN styles[s] /\ dress[q] = styles[s][q]
          \/ \E p \in Box(region) : /\ p \in DOMAIN styles[s]
                                    /\ q = SortTo(s, region, key, descending, p)
                                    /\ dress[q] = styles[s][p]
      BY <1>1, SortMoves
    <3>3. CASE q \notin Box(region) /\ q \in DOMAIN styles[s] /\ dress[q] = styles[s][q]
      <4>1. Held(cells'[s], q) = Held(cells[s], q)
        BY <3>1, <3>3, <1>2, <1>3, HeldBeside
      <4> QED BY <4>1, <3>3
    <3>4. CASE \E p \in Box(region) : /\ p \in DOMAIN styles[s]
                                      /\ q = SortTo(s, region, key, descending, p)
                                      /\ dress[q] = styles[s][p]
      <4>1. PICK p \in Box(region) : /\ p \in DOMAIN styles[s]
                                     /\ q = SortTo(s, region, key, descending, p)
                                     /\ dress[q] = styles[s][p]
        BY <3>4
      <4>2. q \in Box(region) /\ new[q] = Raw(s, p)
        BY <4>1, <1>1, SortMoves, SortPlaces
      <4>3. q \in DOMAIN new
        BY <4>2, <3>1
      <4>4. Held(cells'[s], q) = new[q]
        BY <4>3, <1>2, <1>3, HeldAfterPut, ZenonT(30)
      <4>5. Held(cells'[s], q) = Held(cells[s], p)
        BY <4>2, <4>4, RawHeld
      <4> QED BY <4>1, <4>5
    <3> QED BY <3>2, <3>3, <3>4
  <2> QED BY <1>4, <2>1, <2>2 DEF DressedIn
<1>5. CASE t # s
  <2>1. cells'[t] = cells[t] /\ styles'[t] = styles[t]
    BY <1>2, <1>3, <1>5
  <2> QED BY <2>1
<1> QED BY <1>4, <1>5

\* Only structural edits touch the lines.
LEMMA LinesTouched ==
    ASSUME [Next]_vars, lines' # lines
    PROVE  \E axis \in Axes : InsertOrDelete(active, axis)
<1>1. CASE EditSheet(active)
  BY <1>1 DEF EditSheet, Write, SetStyle, ClearStyle, Paste, Copy, Cut, Clear, Sort, Fill,
              AddRule, DefineName, ClearFormats, ClearChecks
<1>2. CASE \E s \in Sheets : SwitchSheet(s)
  BY <1>2 DEF SwitchSheet
<1>3. CASE \E n \in Names : RemoveName(n)
  BY <1>3 DEF RemoveName
<1>4. CASE UNCHANGED vars
  BY <1>4 DEF vars
<1> QED BY <1>1, <1>2, <1>3, <1>4 DEF Next

\* Sorting, inserting and deleting dress no text in a style that it did not
\* have (sort_selection, Sheet._restructure).
THEOREM StylesFollowText == Spec => StylesStayWithText
<1> DEFINE Moves ==
        (\/ lines' # lines
         \/ /\ cells'[active] # cells[active] /\ styles[active] # <<>>
            /\ \E region \in Regions, key \in {0, 1}, descending \in BOOLEAN :
                   Sort(active, region, key, descending))
        => \A s \in Sheets : Dressed(s)' \subseteq Dressed(s)
<1>1. ASSUME IInv, [Next]_vars
      PROVE  Moves
  <2>1. EditsAssumption
    BY EditsAssumption
  <2>2. active \in Sheets /\ LinesOK
    BY <1>1 DEF IInv
  <2>3. ASSUME lines' # lines, NEW t \in Sheets
        PROVE  DressedIn(cells'[t], styles'[t]) \subseteq DressedIn(cells[t], styles[t])
    <3>1. PICK axis \in Axes : InsertOrDelete(active, axis)
      BY <1>1, <2>3, LinesTouched
    <3>2. PICK index, delta : /\ Fits(active, axis, index, delta)
                              /\ Restructure(active, axis, index, delta)
      BY <2>1, <2>2, <3>1, InsertOrDeleteFits
    <3> QED BY <1>1, <2>1, <3>2, RestructureDresses
  <2>4. ASSUME NEW region \in Regions, NEW key, NEW descending,
               Sort(active, region, key, descending), NEW t \in Sheets
        PROVE  DressedIn(cells'[t], styles'[t]) \subseteq DressedIn(cells[t], styles[t])
    BY <1>1, <2>1, <2>2, <2>4, SortDresses
  <2>5. \A s : /\ Dressed(s) = DressedIn(cells[s], styles[s])
               /\ Dressed(s)' = DressedIn(cells'[s], styles'[s])
    BY DressedHeld
  <2> QED BY <2>3, <2>4, <2>5
<1>2. StylesStayWithText <=> [][Moves]_vars
  BY DEF StylesStayWithText
<1>3. IInv /\ [Next]_vars => [Moves]_vars
  BY <1>1
<1> QED BY <1>2, <1>3, Invariant, PTL DEF Spec
=============================================================================
