----------------------------- MODULE SheetEdits -----------------------------
(***************************************************************************)
(* The edits that move things about in a workbook: rows and columns        *)
(* inserted and deleted (Sheet._restructure), copy, cut, paste and fill    *)
(* (core/fill.py), sorting, styling, conditional formats, validations and  *)
(* defined names (gui/mixin_document.py).                                  *)
(*                                                                         *)
(* What a reference should mean is kept beside the code's state: every     *)
(* line of a sheet has an identity (lines), and every formula, rule and    *)
(* name remembers the lines that it covered when it was written (means).   *)
(* Inserted lines join a range when they come between two of its lines;    *)
(* deleted ones leave it.  The code knows positions only.                  *)
(***************************************************************************)
EXTENDS RefShift, Sequences, FiniteSets, SequencesExt

CONSTANTS
    Sheets,       \* names of the sheets
    Names,        \* defined names
    Numbers,      \* what plain cells hold
    Styles,       \* styles of cells
    Operands,     \* the operands that formulas, rules and names are written with
    Grid,         \* the cells that are written, pasted to and styled
    Regions,      \* the selections: pairs of corners
    Extent,       \* lines of a sheet at the start, for each axis
    Inserts,      \* how many lines are inserted at once
    Deletes,      \* how many lines are deleted at once
    MaxSteps      \* bound on the number of commands

Position == [row : Nat, col : Nat]

\* An operand of a formula, as the tokens of its text give it.
IsOperand(operand) ==
    \/ operand = RefError
    \/ /\ operand \in [form : {"cell", "range", "spill"}, sheet : Sheets \cup {Own},
                       first : [row : Int, col : Int, fixed : SUBSET Axes],
                       last : [row : Int, col : Int, fixed : SUBSET Axes]]
       /\ operand.form # "range" => operand.first = operand.last

ASSUME EditsAssumption == /\ Own \notin Sheets
                          /\ \A o \in Operands : IsOperand(o)
                          /\ Grid \subseteq Position
                          /\ Regions \subseteq [top : Position, bottom : Position]
                          /\ \A r \in Regions : \A axis \in Axes : r.top[axis] <= r.bottom[axis]
                          /\ Extent \in [Axes -> Nat \ {0}]
                          /\ Inserts \subseteq Nat
                          /\ Deletes \subseteq Nat
                          /\ MaxSteps \in Nat
                          /\ Numbers \subseteq Nat

VARIABLES
    active,       \* the sheet shown: every command of the GUI acts on it
    cells,        \* _cells of every sheet
    styles,       \* cell_styles of every sheet
    rules,        \* the ranges of cond_rules and validations of every sheet
    names,        \* the registry: name -> operand
    clip,         \* the internal clip
    lines,        \* identities of the lines of every sheet, on each axis
    owed,         \* what the rules ought to cover
    namesOwed,    \* what the names ought to cover
    steps         \* edits made, and the source of fresh identities

vars  == <<active, cells, styles, rules, names, clip, lines, owed, namesOwed, steps>>

\* Every sheet has a list of conditional formats and one of validations.
Formats(s) == <<s, "formats">>
Checks(s)  == <<s, "checks">>

Lists == {Formats(s) : s \in Sheets} \cup {Checks(s) : s \in Sheets}

Empty  == [kind |-> "empty"]
NoClip == [kind |-> "none"]

Plain(n) == [kind |-> "plain", number |-> n]

Raw(s, p) == IF p \in DOMAIN cells[s] THEN cells[s][p] ELSE Empty

-----------------------------------------------------------------------------
\* The lines that an operand covers, by its positions; a range may be given
\* from any corner (parse_range orders the corners).
Span(a, b) == IF a <= b THEN a .. b ELSE b .. a

Covered(s, operand) ==
    [axis \in Axes |-> {lines[s][axis][i + 1] :
        i \in Span(operand.first[axis], operand.last[axis])
                \cap 0 .. Len(lines[s][axis]) - 1}]

Nothing == [axis \in Axes |-> {}]

Vanished(means) == \E axis \in Axes : means[axis] = {}

Within(s, operand) ==
    operand.form # "error" =>
    \A axis \in Axes : {operand.first[axis], operand.last[axis]} \subseteq 0 .. Len(lines[s][axis]) - 1

\* A cell, or a range from its first corner to its last.
InOrder(operand) ==
    operand.form # "error" =>
        IsRegion(operand) /\ \A axis \in Axes : operand.first[axis] <= operand.last[axis]

Formula(s, operand) ==
    [kind |-> "formula", operand |-> operand, inOrder |-> InOrder(operand),
     means |-> IF operand.form = "error" THEN Nothing
               ELSE Covered(TargetSheet(operand, s), operand)]

-----------------------------------------------------------------------------
Init == /\ active \in Sheets
        /\ cells = [s \in Sheets |-> <<>>]
        /\ styles = [s \in Sheets |-> <<>>]
        /\ rules = [l \in Lists |-> {}]
        /\ names = <<>>
        /\ clip = NoClip
        /\ lines = [s \in Sheets |-> [axis \in Axes |-> [i \in 1 .. Extent[axis] |-> <<0, i>>]]]
        /\ owed = [l \in Lists |-> {}]
        /\ namesOwed = <<>>
        /\ steps = 0

Step == steps < MaxSteps /\ steps' = steps + 1

\* set_cell for several cells: the empty text removes a cell.
Put(f, new) ==
    LET filled == {p \in DOMAIN new : new[p] # Empty}
    IN  [p \in (DOMAIN f \ DOMAIN new) \cup filled |-> IF p \in filled THEN new[p] ELSE f[p]]

\* d[key] = value on a dictionary.
With(f, key, value) == [k \in DOMAIN f \cup {key} |-> IF k = key THEN value ELSE f[k]]

\* _switch_sheet.
SwitchSheet(s) ==
    /\ Step
    /\ s # active
    /\ active' = s
    /\ UNCHANGED <<cells, styles, rules, names, clip, lines, owed, namesOwed>>

\* _commit_cell, clear: an edit that changes nothing is none.
Write(s, p, content) ==
    /\ Step
    /\ content # Raw(s, p)
    /\ cells' = [cells EXCEPT ![s] = Put(@, [q \in {p} |-> content])]
    /\ UNCHANGED <<active, styles, rules, names, clip, lines, owed, namesOwed>>

-----------------------------------------------------------------------------
\* Where the entries of a sheet's dictionary go, and those whose line goes away
\* with them.
Relocated(f, axis, index, delta) ==
    LET To(p) == [p EXCEPT ![axis] = ShiftCoord(@, index, delta)]
        stay  == {p \in DOMAIN f : To(p)[axis] # Gone}
    IN  [q \in {To(p) : p \in stay} |-> f[CHOOSE p \in stay : To(p) = q]]

\* Mutant of Adjusted: a formula on another sheet is not looked at.
AdjustedHere(content, own, edited, axis, index, delta) ==
    IF content.kind = "formula" /\ own = edited
    THEN [content EXCEPT !.operand = AdjustOperand(@, own, edited, axis, index, delta)]
    ELSE content

Adjusted(content, own, edited, axis, index, delta) ==
    IF content.kind = "formula"
    THEN [content EXCEPT !.operand = AdjustOperand(@, own, edited, axis, index, delta)]
    ELSE content

\* The identity of the k-th line that this edit inserts.
Fresh(k) == <<steps + 1, k>>

\* Lines deleted leave what means covered; lines inserted between two covered
\* ones join it.
Reach(means, s, axis, index, delta) ==
    LET ids     == lines[s][axis]
        lost    == {ids[i] : i \in index + 1 .. index - delta}
        added   == {Fresh(k) : k \in 1 .. delta}
        between == index \in 1 .. Len(ids) - 1 /\ {ids[index], ids[index + 1]} \subseteq means[axis]
    IN  [means EXCEPT ![axis] = (@ \ lost) \cup (IF between THEN added ELSE {})]

NewLines(s, axis, index, delta) ==
    LET ids == lines[s][axis]
    IN  SubSeq(ids, 1, index)
        \o [k \in 1 .. delta |-> Fresh(k)]
        \o SubSeq(ids, index + 1 + (IF delta < 0 THEN - delta ELSE 0), Len(ids))

\* insert_rows, insert_cols, delete_rows, delete_cols.
Restructure(s, axis, index, delta) ==
    LET Reached(means, target) ==
            IF target = s THEN Reach(means, s, axis, index, delta) ELSE means
        Shift(operand) == AdjustOperand(operand, s, s, axis, index, delta)
    IN
    /\ Step
    /\ cells' = [t \in Sheets |->
            LET kept == IF t = s THEN Relocated(cells[t], axis, index, delta) ELSE cells[t]
            IN  [p \in DOMAIN kept |->
                    LET new == Adjusted(kept[p], t, s, axis, index, delta)
                    IN  IF new.kind # "formula" THEN new
                        ELSE [new EXCEPT !.means = Reached(@, TargetSheet(kept[p].operand, t))]]]
    /\ styles' = [styles EXCEPT ![s] = Relocated(@, axis, index, delta)]
    /\ rules' = [l \in Lists |-> IF l[1] = s THEN {Shift(o) : o \in rules[l]} \ {RefError}
                                 ELSE rules[l]]
    /\ LET kept == {n \in DOMAIN names : Shift(names[n]) # RefError}
       IN  names' = [n \in kept |-> Shift(names[n])]
    /\ lines' = [lines EXCEPT ![s][axis] = NewLines(s, axis, index, delta)]
    /\ owed' = [l \in Lists |-> IF l[1] = s THEN {m \in {Reached(m, s) : m \in owed[l]} : ~ Vanished(m)}
                                ELSE owed[l]]
    /\ namesOwed' = [n \in DOMAIN namesOwed |->
            [namesOwed[n] EXCEPT !.means = Reached(@, namesOwed[n].sheet),
                                 !.strayed = @ \/ (namesOwed[n].bare /\ namesOwed[n].sheet # s)]]
    /\ UNCHANGED <<active, clip>>

-----------------------------------------------------------------------------
Cell(row, col) == [row |-> row, col |-> col]

Box(region) ==
    {Cell(r, c) : r \in region.top.row .. region.bottom.row,
                  c \in region.top.col .. region.bottom.col}

By(from, to) == [row |-> to.row - from.row, col |-> to.col - from.col]

\* shift_formula on a cell's content that goes to sheet s.
Copied(content, s, by) ==
    IF content.kind = "formula" THEN Formula(s, ShiftOperand(content.operand, by)) ELSE content

\* The model ends where the lines end: no copy refers beyond them.
CopyFits(content, s, by) ==
    content.kind = "formula" =>
        LET new == ShiftOperand(content.operand, by)
        IN  Within(TargetSheet(new, s), new)

Clipped(s, region) ==
    [kind |-> "clip", origin |-> region.top,
     grid |-> [p \in Box(region) |-> Raw(s, p)]]

\* copy_selection: copy_region of the raw texts.
Copy(s, region) ==
    /\ Step
    /\ clip' = Clipped(s, region)
    /\ UNCHANGED <<active, cells, styles, rules, names, lines, owed, namesOwed>>

\* cut_selection: what is pasted later is shifted like a copy.
Cut(s, region) ==
    /\ Step
    /\ clip' = Clipped(s, region)
    /\ cells' = [cells EXCEPT ![s] = Put(@, [p \in Box(region) |-> Empty])]
    /\ UNCHANGED <<active, styles, rules, names, lines, owed, namesOwed>>

\* _clear_selection.
Clear(s, region) ==
    /\ Step
    /\ cells' = [cells EXCEPT ![s] = Put(@, [p \in Box(region) |-> Empty])]
    /\ UNCHANGED <<active, styles, rules, names, clip, lines, owed, namesOwed>>

\* paste_at_cursor with an internal clip: paste_clip, relative.
Paste(s, at) ==
    /\ Step
    /\ clip # NoClip
    /\ LET by == By(clip.origin, at)
       IN  /\ \A p \in DOMAIN clip.grid : CopyFits(clip.grid[p], s, by)
           /\ cells' = [cells EXCEPT ![s] = Put(@,
                  [q \in {Cell(p.row + by.row, p.col + by.col) : p \in DOMAIN clip.grid} |->
                      Copied(clip.grid[Cell(q.row - by.row, q.col - by.col)], s, by)])]
    /\ UNCHANGED <<active, styles, rules, names, clip, lines, owed, namesOwed>>

\* fill_down and fill_right: the first line of the selection along the axis is
\* copied over the others.
Fill(s, region, axis) ==
    LET source(p) == [p EXCEPT ![axis] = region.top[axis]]
        goal == {p \in Box(region) : p[axis] # region.top[axis]}
    IN
    /\ Step
    /\ \A p \in goal : CopyFits(Raw(s, source(p)), s, By(source(p), p))
    /\ cells' = [cells EXCEPT ![s] = Put(@,
           [p \in goal |-> Copied(Raw(s, source(p)), s, By(source(p), p))])]
    /\ UNCHANGED <<active, styles, rules, names, clip, lines, owed, namesOwed>>

\* _cell_key: numbers before text, blanks last whatever the direction.
Before(a, b, descending) ==
    \/ a.kind # "empty" /\ b.kind = "empty"
    \/ IF descending THEN \/ a.kind = "formula" /\ b.kind = "plain"
                          \/ a.kind = "plain" /\ b.kind = "plain" /\ a.number > b.number
       ELSE \/ a.kind = "plain" /\ b.kind = "formula"
            \/ a.kind = "plain" /\ b.kind = "plain" /\ a.number < b.number

\* The row that row r of the region moves to: sort_order is stable.  (Formulas
\* compare by their text; the model has at most one in the key column.)
SortedTo(s, region, key, descending, r) ==
    LET rows == region.top.row .. region.bottom.row
        K(i) == Raw(s, Cell(i, key))
    IN  region.top.row + Cardinality({i \in rows :
            \/ Before(K(i), K(r), descending)
            \/ i < r /\ ~ Before(K(r), K(i), descending)})

\* Mutant of Sort: styles stay in their rows.
SortLeavesStyles(s, region, key, descending) ==
    LET To(p)   == [p EXCEPT !.row = SortedTo(s, region, key, descending, p.row)]
        From(q) == CHOOSE p \in Box(region) : To(p) = q
    IN
    /\ Step
    /\ cells' = [cells EXCEPT ![s] = Put(@, [q \in Box(region) |-> Raw(s, From(q))])]
    /\ UNCHANGED <<active, styles, rules, names, clip, lines, owed, namesOwed>>

\* apply_sort: raw texts, styles and formats of a row go together.
Sort(s, region, key, descending) ==
    LET To(p)   == [p EXCEPT !.row = SortedTo(s, region, key, descending, p.row)]
        From(q) == CHOOSE p \in Box(region) : To(p) = q
        styled  == {p \in Box(region) : p \in DOMAIN styles[s]}
    IN
    /\ Step
    /\ Cardinality({r \in region.top.row .. region.bottom.row :
                       Raw(s, Cell(r, key)).kind = "formula"}) <= 1
    /\ cells' = [cells EXCEPT ![s] = Put(@, [q \in Box(region) |-> Raw(s, From(q))])]
    /\ styles' = [styles EXCEPT ![s] =
           [q \in (DOMAIN @ \ Box(region)) \cup {To(p) : p \in styled} |->
               IF q \in Box(region) THEN @[From(q)] ELSE @[q]]]
    /\ UNCHANGED <<active, rules, names, clip, lines, owed, namesOwed>>

-----------------------------------------------------------------------------
\* _set_style and clear_styles on one cell.
SetStyle(s, p, style) ==
    /\ Step
    /\ styles' = [styles EXCEPT ![s] = With(@, p, style)]
    /\ UNCHANGED <<active, cells, rules, names, clip, lines, owed, namesOwed>>

ClearStyle(s, p) ==
    /\ Step
    /\ p \in DOMAIN styles[s]
    /\ styles' = [styles EXCEPT ![s] = [q \in DOMAIN @ \ {p} |-> @[q]]]
    /\ UNCHANGED <<active, cells, rules, names, clip, lines, owed, namesOwed>>

\* apply_validation, and a conditional format added to its list l: a rule covers
\* a region of its own sheet, as the selection gives it.
AddRule(s, l, operand) ==
    /\ Step
    /\ operand.sheet = Own
    /\ IsRegion(operand)
    /\ InOrder(operand)
    /\ rules' = [rules EXCEPT ![l] = @ \cup {operand}]
    /\ owed' = [owed EXCEPT ![l] = @ \cup {Covered(s, operand)}]
    /\ UNCHANGED <<active, cells, styles, names, clip, lines, namesOwed>>

\* clear_conditional_formats.
ClearFormats(s) ==
    /\ Step
    /\ rules[Formats(s)] # {}
    /\ rules' = [rules EXCEPT ![Formats(s)] = {}]
    /\ owed' = [owed EXCEPT ![Formats(s)] = {}]
    /\ UNCHANGED <<active, cells, styles, names, clip, lines, namesOwed>>

\* An operand lies in the region in part, and so do lines.
Meets(operand, region) ==
    \A axis \in Axes : operand.first[axis] <= region.bottom[axis] /\ region.top[axis] <= operand.last[axis]

Selected(s, region) == Covered(s, [first |-> region.top, last |-> region.bottom])

Touches(means, picked) == \A axis \in Axes : means[axis] \cap picked[axis] # {}

\* clear_validation: the validations that the selection meets go as a whole.
ClearChecks(s, region) ==
    /\ Step
    /\ \E o \in rules[Checks(s)] : Meets(o, region)
    /\ rules' = [rules EXCEPT ![Checks(s)] = {o \in @ : ~ Meets(o, region)}]
    /\ owed' = [owed EXCEPT ![Checks(s)] = {m \in @ : ~ Touches(m, Selected(s, region))}]
    /\ UNCHANGED <<active, cells, styles, names, clip, lines, namesOwed>>

\* define_name while sheet s is shown, or a qualified name by the API.
DefineName(s, n, operand) ==
    /\ Step
    /\ IsRegion(operand)
    /\ names' = With(names, n, operand)
    /\ LET target == TargetSheet(operand, s)
       IN  namesOwed' = With(namesOwed, n,
               [sheet |-> target, bare |-> operand.sheet = Own,
                strayed |-> ~ InOrder(operand), means |-> Covered(target, operand)])
    /\ UNCHANGED <<active, cells, styles, rules, clip, lines, owed>>

RemoveName(n) ==
    /\ Step
    /\ n \in DOMAIN names
    /\ names' = [m \in DOMAIN names \ {n} |-> names[m]]
    /\ namesOwed' = [m \in DOMAIN namesOwed \ {n} |-> namesOwed[m]]
    /\ UNCHANGED <<active, cells, styles, rules, clip, lines, owed>>

-----------------------------------------------------------------------------
EditSheet(s) ==
    \/ \E p \in Grid : \/ \E n \in Numbers : Write(s, p, Plain(n))
                       \/ \E o \in Operands :
                              Within(TargetSheet(o, s), o) /\ Write(s, p, Formula(s, o))
                       \/ \E st \in Styles : SetStyle(s, p, st)
                       \/ ClearStyle(s, p)
                       \/ Paste(s, p)
    \/ \E region \in Regions : \/ Copy(s, region)
                               \/ Cut(s, region)
                               \/ Clear(s, region)
                               \/ ClearChecks(s, region)
                               \/ \E key \in region.top.col .. region.bottom.col,
                                     descending \in BOOLEAN : Sort(s, region, key, descending)
                               \/ \E axis \in Axes : Fill(s, region, axis)
    \/ \E o \in Operands :
        /\ Within(TargetSheet(o, s), o)
        /\ \/ \E l \in {Formats(s), Checks(s)} : AddRule(s, l, o)
           \/ \E n \in Names : DefineName(s, n, o)
    \/ ClearFormats(s)

InsertOrDelete(s, axis) ==
    \/ \E index \in 0 .. Len(lines[s][axis]), count \in Inserts :
           Restructure(s, axis, index, count)
    \/ \E index \in 0 .. Len(lines[s][axis]) - 1, count \in Deletes :
           /\ index + count <= Len(lines[s][axis])
           /\ Restructure(s, axis, index, - count)

Next == \/ EditSheet(active)
        \/ \E axis \in Axes : InsertOrDelete(active, axis)
        \/ \E s \in Sheets : SwitchSheet(s)
        \/ \E n \in Names : RemoveName(n)

Spec == Init /\ [][Next]_vars

-----------------------------------------------------------------------------
\* A formula covers, by its positions, the lines it was written for, less the
\* deleted and with those inserted within a range, whichever sheets the edits
\* were made on and wherever the formula has been moved; it is #REF! when
\* nothing is left to refer to, and only then.  Exempt is what the code has no
\* eye for: a spill reference, and a range written backwards (C5:C1) or turned
\* round by a copy, which any deletion makes #REF!.
FormulasFollow ==
    \A s \in Sheets : \A p \in DOMAIN cells[s] :
        LET c == cells[s][p]
        IN  c.kind = "formula" /\ c.inOrder =>
                IF c.operand.form = "error" THEN Vanished(c.means)
                ELSE c.means = Covered(TargetSheet(c.operand, s), c.operand)

\* Conditional formats and validations cover the lines they were set on; none
\* is lost while a cell of it is left, and none is kept beyond that.
RulesFollow ==
    \A l \in Lists : {Covered(l[1], o) : o \in rules[l]} = owed[l]

\* A name keeps its lines, and is removed with the last of them.  Exempt is an
\* unqualified name after an edit of another sheet than the one it was defined
\* on: _restructure takes it for a name of the edited sheet; and again one that
\* stands for a range written backwards.
NamesFollow ==
    \A n \in DOMAIN namesOwed :
        LET due == namesOwed[n]
        IN  ~ due.strayed =>
                IF Vanished(due.means) THEN n \notin DOMAIN names
                ELSE n \in DOMAIN names /\ Covered(due.sheet, names[n]) = due.means

Shown(content) == IF content.kind = "formula" THEN [kind |-> "formula"] ELSE content

Dressed(s) == {<<Shown(Raw(s, p)), styles[s][p]>> : p \in DOMAIN styles[s]}

\* Sorting and structural edits dress no text in a style that it did not have:
\* styles and texts move together.
StylesStayWithText ==
    [][(\/ lines' # lines
        \/ /\ cells'[active] # cells[active] /\ styles[active] # <<>>
           /\ \E region \in Regions, key \in {0, 1}, descending \in BOOLEAN :
                  Sort(active, region, key, descending))
       => \A s \in Sheets : Dressed(s)' \subseteq Dressed(s)]_vars

\* A reference as R1C1 notation would write it at p.
Relative(ref, p) ==
    [axis \in Axes |-> IF axis \in ref.fixed THEN ref[axis] ELSE ref[axis] - p[axis]]

SameForm(old, p, new, q) ==
    old.kind = "formula" /\ old.operand.form # "spill" /\ new.operand.form # "error" =>
        /\ Relative(new.operand.first, q) = Relative(old.operand.first, p)
        /\ Relative(new.operand.last, q) = Relative(old.operand.last, p)
        /\ new.operand.form = old.operand.form

\* What is pasted or filled has the same relative form as its source had when
\* it was copied, whatever was inserted or deleted between the copy and the
\* paste; a spill reference alone loses its #.
CopiesKeepForm ==
    [][cells'[active] # cells[active] =>
       /\ \A at \in Grid : Paste(active, at) =>
            \A p \in DOMAIN clip.grid :
                LET by == By(clip.origin, at)
                    q  == Cell(p.row + by.row, p.col + by.col)
                IN  SameForm(clip.grid[p], p, Raw(active, q)', q)
       /\ \A region \in Regions, axis \in Axes : Fill(active, region, axis) =>
            \A q \in Box(region) :
                LET p == [q EXCEPT ![axis] = region.top[axis]]
                IN  SameForm(Raw(active, p), p, Raw(active, q)', q)]_vars
=============================================================================
