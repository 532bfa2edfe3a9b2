------------------------------ MODULE SheetCalc ------------------------------
(***************************************************************************)
(* Recalculation: abax/core/sheet.py (get_value, _compute_formula,         *)
(* _resolve, set_cell, recalculate) and the sheet list of                  *)
(* abax/core/workbook.py, for sheets without array formulas.               *)
(*                                                                         *)
(* The recursion get_value -> _compute_formula -> evaluate -> _resolve ->  *)
(* get_value is kept as the variable stack, one frame for each formula     *)
(* being computed; a step of the module reads one reference, enters one    *)
(* formula or leaves one.  Everything runs in the GUI's thread, so editing *)
(* waits until the stack is empty; the order in which cells are read does  *)
(* not, which is the point: values must not depend on it.                  *)
(*                                                                         *)
(* Text is a sequence of atoms, joined by the operator &; errors and the   *)
(* value of an empty cell are constants.                                   *)
(***************************************************************************)
EXTENDS Integers, Sequences, FiniteSets

CONSTANTS
    Sheets,     \* Sheet objects, in the workbook or not
    Names,      \* sheet names
    Default,    \* "Sheet1"
    Here,       \* the empty sheet name of an unqualified reference
    Pos,        \* cell positions (row, col)
    Inputs,     \* what can be typed into a cell, the empty text included
    Atoms,      \* what texts are made of
    None,       \* value of an empty cell
    CIRC, REF, NAME,    \* error values
    NotCached,  \* no entry in _value_cache
    Draws,      \* what RAND() can return
    MaxNesting  \* formulas nested inside one another before RecursionError

Texts  == Seq(Atoms)
Errors == {CIRC, REF, NAME}
Values == Texts \cup {None} \cup Errors
Refs   == [sheet : Names \cup {Here}, pos : Pos]
Key    == Sheets \X Pos

\* A cell: empty, a literal, or a formula.  A formula reads the references of
\* args and combines them: =A1, =A1&B1, =IFERROR(A1,B1), =RAND(), or a text
\* after "=" that does not parse.
Ops       == {"empty", "literal", "copy", "join", "iferror", "rand", "bad"}
Arity(op) == CASE op = "copy" -> 1 [] op \in {"join", "iferror"} -> 2 [] OTHER -> 0
Contents  == {c \in [op : Ops, args : Seq(Refs), text : Texts \cup {None}] :
                 Len(c.args) = Arity(c.op)}
Empty     == [op |-> "empty", args |-> <<>>, text |-> None]

ASSUME CalcAssumption ==
    /\ Default \in Names /\ Here \notin Names
    /\ Inputs \subseteq Contents /\ Empty \in Inputs
    /\ NotCached \notin Values
    /\ Errors \cap (Texts \cup {None}) = {}
    /\ CIRC # REF /\ CIRC # NAME
    /\ Draws \subseteq Texts
    /\ MaxNesting \in Nat \ {0}

VARIABLES
    book,       \* Workbook.sheets
    title,      \* Sheet.name of each sheet object
    content,    \* Sheet._cells of each sheet object
    cache,      \* Sheet._value_cache of each sheet object
    stack,      \* formulas being computed, the innermost last
    sweep,      \* a recalculate(): the sheets still to do, the cells of the current one
    since,      \* what touched the caches last: "edit", "sheets" or "recalc"
    overflowed  \* RecursionError was raised since the caches were cleared

vars == <<book, title, content, cache, stack, sweep, since, overflowed>>

-----------------------------------------------------------------------------
IsFormula(c) == c.op \notin {"empty", "literal"}
IsError(v)   == v \in Errors

AsText(v) == IF v = None THEN <<>> ELSE v
Join(v, w) == IF IsError(v) THEN v
              ELSE IF IsError(w) THEN w
              ELSE AsText(v) \o AsText(w)

\* evaluate() reads the references of a formula from left to right, and the
\* second one of IFERROR only when the first is an error.
Wants(f, vals) == CASE f.op = "iferror" -> vals = <<>> \/ (Len(vals) = 1 /\ IsError(vals[1]))
                    [] OTHER            -> Len(vals) < Len(f.args)

Results(f, vals) == CASE f.op = "copy"    -> {vals[1]}
                      [] f.op = "join"    -> {Join(vals[1], vals[2])}
                      [] f.op = "iferror" -> {IF IsError(vals[1]) THEN vals[2] ELSE vals[1]}
                      [] f.op = "rand"    -> Draws
                      [] OTHER            -> {NAME}

\* get_sheet(name): the first sheet of that name, if there is one.
GetSheet(n) == {book[i] : i \in {j \in DOMAIN book :
                    title[book[j]] = n /\ \A h \in 1 .. j - 1 : title[book[h]] # n}}

\* The cell a reference in cell k leads to, unless its sheet is missing.
Hits(k, ref)    == (IF ref.sheet = Here THEN {k[1]} ELSE GetSheet(ref.sheet)) \X {ref.pos}
Missing(k, ref) == Hits(k, ref) = {}
Target(k, ref)  == CHOOSE d \in Hits(k, ref) : TRUE

InBook(k) == \E i \in DOMAIN book : book[i] = k[1]
NoCache   == [k \in Key |-> NotCached]

Idle      == stack = <<>> /\ sweep.left = <<>> /\ sweep.cells = {}
Computing == {stack[i].key : i \in DOMAIN stack}

Init == /\ \E s \in Sheets : book = <<s>>
        /\ title = [s \in Sheets |-> Default]
        /\ content = [k \in Key |-> Empty]
        /\ cache = NoCache
        /\ stack = <<>>
        /\ sweep = [left |-> <<>>, cells |-> {}]
        /\ since = "edit"
        /\ overflowed = FALSE

-----------------------------------------------------------------------------
\* Mutants: get_value does not look into the cache, or nowhere else.
ReadyUncached(k) == ~ IsFormula(content[k])
PeekCached(k)    == cache[k]

\* get_value(k) returns at once: a cached value, a literal, or an empty cell.
Ready(k) == cache[k] # NotCached \/ ~ IsFormula(content[k])
Peek(k)  == IF cache[k] # NotCached THEN cache[k] ELSE content[k].text
Remember(k) == cache' = IF content[k].op = "empty" THEN cache ELSE [cache EXCEPT ![k] = Peek(k)]

Frame(k) == [key |-> k, vals |-> <<>>]

Top     == stack[Len(stack)]
Formula == content[Top.key]
NextRef == Formula.args[Len(Top.vals) + 1]
Asked  == Target(Top.key, NextRef)

Feed(s, v) == [s EXCEPT ![Len(s)].vals = Append(@, v)]

\* Mutant of Deliver: the value is lost.
DeliverNothing(v) == /\ stack' = SubSeq(stack, 1, Len(stack) - 1)
                     /\ UNCHANGED <<cache, sweep>>

\* The innermost formula has value v: cache it and give it to its caller.
Deliver(v) ==
    /\ cache' = [cache EXCEPT ![Top.key] = v]
    /\ stack' = LET callers == SubSeq(stack, 1, Len(stack) - 1)
                IN  IF callers = <<>> THEN <<>> ELSE Feed(callers, v)
    /\ UNCHANGED sweep

\* get_value(k) from outside: a repaint, an export, or recalculate().
Read(k) ==
    /\ stack = <<>>
    /\ \/ Idle /\ InBook(k) /\ UNCHANGED sweep
       \/ k \in sweep.cells /\ sweep' = [sweep EXCEPT !.cells = @ \ {k}]
    /\ IF Ready(k) THEN Remember(k) /\ UNCHANGED stack
       ELSE stack' = <<Frame(k)>> /\ UNCHANGED cache
    /\ UNCHANGED <<book, title, content, since, overflowed>>

\* The innermost formula needs one more value, that of cell Asked.
Wanting == stack # <<>> /\ Wants(Formula, Top.vals)
Asking  == Wanting /\ ~ Missing(Top.key, NextRef)

\* A reference to a sheet that is not there.
ReadMissing ==
    /\ Wanting /\ Missing(Top.key, NextRef)
    /\ stack' = Feed(stack, REF)
    /\ UNCHANGED <<book, title, content, cache, sweep, since, overflowed>>

ReadReady ==
    /\ Asking /\ Ready(Asked)
    /\ stack' = Feed(stack, Peek(Asked))
    /\ Remember(Asked)
    /\ UNCHANGED <<book, title, content, sweep, since, overflowed>>

\* The cell is being computed further out: get_value caches #CIRC! for it.
ReadCircular ==
    /\ Asking /\ ~ Ready(Asked) /\ Asked \in Computing
    /\ cache' = [cache EXCEPT ![Asked] = CIRC]
    /\ stack' = Feed(stack, CIRC)
    /\ UNCHANGED <<book, title, content, sweep, since, overflowed>>

Enter ==
    /\ Asking /\ ~ Ready(Asked) /\ Asked \notin Computing
    /\ Len(stack) < MaxNesting
    /\ stack' = Append(stack, Frame(Asked))
    /\ UNCHANGED <<book, title, content, cache, sweep, since, overflowed>>

\* One level too deep: the innermost formula catches the RecursionError and
\* its value is #CIRC!.
Overflow ==
    /\ Asking /\ ~ Ready(Asked) /\ Asked \notin Computing
    /\ Len(stack) = MaxNesting
    /\ Deliver(CIRC)
    /\ overflowed' = TRUE
    /\ UNCHANGED <<book, title, content, since>>

Leave ==
    /\ stack # <<>> /\ ~ Wants(Formula, Top.vals)
    /\ \E v \in Results(Formula, Top.vals) : Deliver(v)
    /\ UNCHANGED <<book, title, content, since, overflowed>>

-----------------------------------------------------------------------------
\* Mutants of Edit: only the cache entry of the cell, or of its sheet, is cleared.
EditClearsCell(k, c) ==
    /\ Idle /\ InBook(k)
    /\ content' = [content EXCEPT ![k] = c]
    /\ cache' = [cache EXCEPT ![k] = NotCached]
    /\ since' = "edit"
    /\ overflowed' = FALSE
    /\ UNCHANGED <<book, title, stack, sweep>>

EditClearsSheet(k, c) ==
    /\ Idle /\ InBook(k)
    /\ content' = [content EXCEPT ![k] = c]
    /\ cache' = [j \in Key |-> IF j[1] = k[1] THEN NotCached ELSE cache[j]]
    /\ since' = "edit"
    /\ overflowed' = FALSE
    /\ UNCHANGED <<book, title, stack, sweep>>

\* set_cell: one cell changes and every cache of the workbook is cleared.
Edit(k, c) ==
    /\ Idle /\ InBook(k)
    /\ content' = [content EXCEPT ![k] = c]
    /\ cache' = NoCache
    /\ since' = "edit"
    /\ overflowed' = FALSE
    /\ UNCHANGED <<book, title, stack, sweep>>

\* Adding, renaming and removing sheets leaves every cache as it is.
AddSheet(n) ==
    /\ Idle
    /\ \A i \in DOMAIN book : title[book[i]] # n
    /\ \E s \in Sheets : /\ \A i \in DOMAIN book : book[i] # s
                         /\ book' = Append(book, s)
                         /\ title' = [title EXCEPT ![s] = n]
    /\ since' = "sheets"
    /\ UNCHANGED <<content, cache, stack, sweep, overflowed>>

\* The GUI assigns Sheet.name without asking whether the name is taken.
RenameSheet(n) ==
    /\ Idle
    /\ \E i \in DOMAIN book : title' = [title EXCEPT ![book[i]] = n]
    /\ since' = "sheets"
    /\ UNCHANGED <<book, content, cache, stack, sweep, overflowed>>

\* The sheets that are not called n, in the order of book: f lists their indices.
Keeps(f, n) ==
    /\ \A i, j \in DOMAIN f : i < j => f[i] < f[j]
    /\ {f[i] : i \in DOMAIN f} = {i \in DOMAIN book : title[book[i]] # n}

\* remove_sheet(n): every sheet of that name goes, with its cells; an empty
\* workbook gets a new default sheet.
RemoveSheet(n) ==
    /\ Idle
    /\ \E i \in DOMAIN book : title[book[i]] = n
    /\ \E m \in 0 .. Len(book) : \E f \in [1 .. m -> 1 .. Len(book)] :
          /\ Keeps(f, n)
          /\ \/ m > 0 /\ book' = [i \in 1 .. m |-> book[f[i]]]
             \/ m = 0 /\ \E s \in Sheets : book' = <<s>>
    /\ LET gone(k) == title[k[1]] = n /\ InBook(k)
       IN  /\ title' = [s \in Sheets |-> IF title[s] = n THEN Default ELSE title[s]]
           /\ content' = [k \in Key |-> IF gone(k) THEN Empty ELSE content[k]]
           /\ cache' = [k \in Key |-> IF gone(k) THEN NotCached ELSE cache[k]]
    /\ since' = "sheets"
    /\ UNCHANGED <<stack, sweep, overflowed>>

\* Workbook.recalculate(): each sheet in turn clears its own cache and reads
\* its own cells.
Recalculate ==
    /\ Idle
    /\ sweep' = [sweep EXCEPT !.left = book]
    /\ UNCHANGED <<book, title, content, cache, stack, since, overflowed>>

RecalculateSheet ==
    /\ stack = <<>> /\ sweep.cells = {} /\ sweep.left # <<>>
    /\ LET s == Head(sweep.left)
       IN  /\ cache' = [k \in Key |-> IF k[1] = s THEN NotCached ELSE cache[k]]
           /\ sweep' = [left  |-> Tail(sweep.left),
                        cells |-> {k \in Key : k[1] = s /\ content[k].op # "empty"}]
    /\ since' = "recalc"
    /\ UNCHANGED <<book, title, content, stack, overflowed>>

-----------------------------------------------------------------------------
Compute == ReadMissing \/ ReadReady \/ ReadCircular \/ Enter \/ Overflow \/ Leave

Next == \/ \E k \in Key : Read(k)
        \/ Compute
        \/ \E k \in Key, c \in Inputs : Edit(k, c)
        \/ \E n \in Names : AddSheet(n) \/ RenameSheet(n) \/ RemoveSheet(n)
        \/ Recalculate
        \/ RecalculateSheet

Spec == Init /\ [][Next]_vars

\* get_value returns once called: the computation itself never stops halfway.
FairSpec == Spec /\ WF_vars(Compute)

-----------------------------------------------------------------------------
TypeOK == /\ book \in Seq(Sheets)
          /\ title \in [Sheets -> Names]
          /\ content \in [Key -> Inputs]
          /\ cache \in [Key -> Values \cup {NotCached}]
          /\ stack \in Seq([key : Key, vals : Seq(Values)])
          /\ sweep \in [left : Seq(Sheets), cells : SUBSET Key]
          /\ since \in {"edit", "sheets", "recalc"}
          /\ overflowed \in BOOLEAN

Deps(k) == UNION {Hits(k, content[k].args[i]) : i \in DOMAIN content[k].args}

\* Cell k is on a cycle of references or leads to one: it belongs to a set of
\* cells in which every cell refers to another one of the set.
Circular(k) == \E S \in SUBSET Key : k \in S /\ \A j \in S : Deps(j) \cap S # {}

\* What a formula in cell k sees now behind one of its references.
Visible(k, ref) == Missing(k, ref) \/ Ready(Target(k, ref))
Sees(k, ref)    == IF Missing(k, ref) THEN REF ELSE Peek(Target(k, ref))

Justified(k) ==
    \E n \in 0 .. Len(content[k].args) :
        LET vals == [i \in 1 .. n |-> Sees(k, content[k].args[i])]
        IN  /\ \A i \in 1 .. n : Visible(k, content[k].args[i])
            /\ ~ Wants(content[k], vals)
            /\ cache[k] \in Results(content[k], vals)

AllJustified == \A k \in Key :
    IsFormula(content[k]) /\ cache[k] # NotCached => Circular(k) \/ Justified(k)

\* Whatever the order in which cells were read, and also halfway through a
\* computation, every cached formula value is what the formula yields from the
\* values now seen behind its references.  The exceptions are the code's own:
\* cycles and what depends on them, the recursion limit, and sheet operations
\* and recalculate(), which do not clear every cache.
CacheIsConsistent == ~ overflowed /\ since = "edit" => AllJustified

\* #CIRC! appears only in a cell that is on a cycle or leads to one, or beyond
\* the recursion limit.
CircMeansCycle ==
    ~ overflowed /\ since = "edit" => \A k \in Key : cache[k] = CIRC => Circular(k)

\* Reading never replaces a cached value, except the #CIRC! of a cell whose
\* computation is under way: what has been shown is not revised, and a volatile
\* formula not drawn again, until something clears the cache.
ReadingIsStable ==
    [][\A k \in Key : cache[k] # NotCached /\ cache'[k] # cache[k]
         => cache'[k] = NotCached \/ (k \in Computing /\ cache[k] = CIRC)]_vars

\* Every call of get_value returns, cycle or not.
ReadReturns == stack # <<>> ~> stack = <<>>

-----------------------------------------------------------------------------
\* test_missing_sheet_is_ref_error (test_cross_sheet.py:80-83): a reference to
\* a sheet that is not there is #REF!.
MissingSheetIsRef ==
    Idle => \A k \in Key :
        /\ InBook(k) /\ content[k].op = "copy" /\ Missing(k, content[k].args[1])
        /\ cache[k] # NotCached
        => cache[k] = REF

\* "Force a full recompute" (sheet.py:660): afterwards every value agrees with
\* the values it was computed from.
RecalculateHeals == ~ overflowed /\ Idle /\ since = "recalc" => AllJustified
=============================================================================
