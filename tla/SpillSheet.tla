----------------------------- MODULE SpillSheet -----------------------------
(***************************************************************************)
(* Dynamic arrays (abax/core/sheet.py, spill.py): a formula whose result   *)
(* is a list spills over the cells below or beside it.  Which cells belong *)
(* to which spill is found by a pass over the formulas that may give a     *)
(* list (the anchors), in row-major order, run by the first read after an  *)
(* edit.  The pass reads cells through get_value like any other formula,   *)
(* so that values are cached while the map of spills is half made.         *)
(*                                                                         *)
(* One sheet; the cell in row r and column c is 10r + c, so that the order  *)
(* of numbers is row-major.  The stack holds the calls in progress, the    *)
(* innermost last:                                                         *)
(*   ask     get_value(cell) has been entered                              *)
(*   value   _compute_formula(cell), called by get_value                   *)
(*   pass    _sync_spills with the anchors still to do                     *)
(*   anchor  _compute_formula(cell), called by the pass                    *)
(* A call looks at the mark of the map once; synced says that it has run a *)
(* pass for that, with which it goes on, whatever came of it.              *)
(***************************************************************************)
EXTENDS Integers, Sequences, FiniteSets, SequencesExt

CONSTANTS
    Width,        \* columns
    Height,       \* rows
    Contents,     \* what a cell may hold
    Visible,      \* the cells that the grid asks for
    MaxFilled     \* bound on the cells that hold something

Cells == {10 * r + c : r \in 1 .. Height, c \in 1 .. Width}

\* Values: numbers from 0 on, an empty cell, and errors.
Blank == -1
Circ  == -2       \* #CIRC!
Spill == -3       \* #SPILL!
Calc  == -4       \* #CALC!
RefEr == -5       \* #REF!

IsError(v) == v < Blank

Number(v) == IF v = Blank THEN 0 ELSE v

(***************************************************************************)
(* Contents, by kind:                                                      *)
(*   empty                                                                 *)
(*   plain     a number                                                    *)
(*   sum       a scalar formula over the cells in from                     *)
(*   filter    an array formula: the positive ones and the errors among    *)
(*             the cells in from                                           *)
(*   sequence  an array formula: 1, 2, ... down or across                  *)
(*   hidden    the same by a formula that _is_array_candidate misses, such *)
(*             as a defined name times a number                            *)
(*   sumspill  SUM(A1#), over the spill anchored at the cell in from       *)
(***************************************************************************)
Kinds == {"empty", "plain", "sum", "filter", "sequence", "hidden", "sumspill"}

Empty == [kind |-> "empty", from |-> <<>>, size |-> 0, down |-> TRUE]

ASSUME SpillAssumption ==
    /\ Width \in Nat \ {0}
    /\ Height \in Nat \ {0}
    /\ Visible \subseteq Cells
    /\ Empty \in Contents
    /\ Contents \subseteq [kind : Kinds, from : Seq(Cells), size : Nat, down : BOOLEAN]
    /\ \A c \in Contents : c.kind \in {"sequence", "hidden"} => c.from = <<>>
    /\ \A c \in Contents : c.kind = "sumspill" => Len(c.from) = 1

VARIABLES
    content,      \* _cells
    cache,        \* _value_cache
    dirty,        \* _spill_dirty
    anchors,      \* _anchor_cells
    owner,        \* _spill_anchor
    grids,        \* _spill_grid: anchor -> the values, first to last
    blocked,      \* _spill_error
    stack         \* calls in progress

spills == <<dirty, owner, grids, blocked>>
vars   == <<content, cache, dirty, anchors, owner, grids, blocked, stack>>

IsFormula(c)   == c.kind \notin {"empty", "plain"}
IsCandidate(c) == c.kind \in {"filter", "sequence", "sumspill"}

Filled == {p \in Cells : content[p] # Empty}

-----------------------------------------------------------------------------
Init == /\ content \in [Cells -> Contents]
        /\ Cardinality(Filled) <= MaxFilled
        /\ cache = <<>>
        /\ dirty = TRUE
        /\ anchors = {p \in Cells : IsCandidate(content[p])}
        /\ owner = <<>>
        /\ grids = <<>>
        /\ blocked = {}
        /\ stack = <<>>

\* Mutant of Edit: the values that other cells have cached are kept.
EditClearsCell(p, c) ==
    /\ stack = <<>>
    /\ c # content[p]
    /\ content' = [content EXCEPT ![p] = c]
    /\ Cardinality(Filled') <= MaxFilled
    /\ anchors' = IF IsCandidate(c) THEN anchors \cup {p} ELSE anchors \ {p}
    /\ cache' = [q \in DOMAIN cache \ {p} |-> cache[q]]
    /\ dirty' = TRUE
    /\ UNCHANGED <<owner, grids, blocked, stack>>

\* set_cell(p, c), between reads.
Edit(p, c) ==
    /\ stack = <<>>
    /\ c # content[p]
    /\ content' = [content EXCEPT ![p] = c]
    /\ Cardinality(Filled') <= MaxFilled
    /\ anchors' = IF IsCandidate(c) THEN anchors \cup {p} ELSE anchors \ {p}
    /\ cache' = <<>>
    /\ dirty' = TRUE
    /\ UNCHANGED <<owner, grids, blocked, stack>>

-----------------------------------------------------------------------------
Frame(call, p) == [call |-> call, cell |-> p, got |-> <<>>, todo |-> {}, synced |-> FALSE]

Top  == stack[Len(stack)]
Rest == SubSeq(stack, 1, Len(stack) - 1)

Computing == {stack[i].cell : i \in {j \in 1 .. Len(stack) : stack[j].call \in {"value", "anchor"}}}

Spilling == \E i \in 1 .. Len(stack) : stack[i].call = "pass"

\* The call returns v to the one that made it.
Return(v) ==
    stack' = IF Rest = <<>> THEN <<>>
             ELSE [Rest EXCEPT ![Len(Rest)].got = Append(@, v)]

Remember(p, v) == cache' = [q \in DOMAIN cache \cup {p} |-> IF q = p THEN v ELSE cache[q]]

\* The i-th cell of a spill at p; it may lie outside the cells of the model,
\* which are then empty.
Place(p, c, i) == IF c.down THEN p + 10 * (i - 1) ELSE p + i - 1

Region(p, c, n) == {Place(p, c, i) : i \in 1 .. n}

\* What a formula makes of the values that it has read: a scalar, or a list.
Scalar(v) == [list |-> FALSE, values |-> <<v>>]
List(s)   == [list |-> TRUE, values |-> s]

\* SUM of values: the first error among them, or their sum.
Summed(got) ==
    IF \E i \in DOMAIN got : IsError(got[i]) THEN SelectSeq(got, IsError)[1]
    ELSE FoldSeq(LAMBDA v, acc : acc + Number(v), 0, got)

\* The values where the condition > 0 is true or an error, in their order.
Filtered(got) ==
    LET places == {i \in DOMAIN got : got[i] > 0 \/ IsError(got[i])}
        nth(k) == CHOOSE i \in places : Cardinality({j \in places : j <= i}) = k
    IN  [k \in 1 .. Cardinality(places) |-> got[nth(k)]]

Result(c, got) ==
    CASE c.kind = "sum" -> Scalar(Summed(got))
      [] c.kind = "filter" -> List(Filtered(got))
      [] c.kind \in {"sequence", "hidden"} -> List([i \in 1 .. c.size |-> i])
      [] c.kind = "sumspill" ->
             Scalar(IF c.from[1] \in DOMAIN grids THEN Summed(grids[c.from[1]]) ELSE RefEr)

\* What a formula reads cell by cell.
Sources(c) == IF c.kind = "sumspill" THEN <<>> ELSE c.from

\* The top left value of an array.
First(values) == IF values = <<>> THEN Calc ELSE values[1]

-----------------------------------------------------------------------------
\* The grid reads a cell; with a clean map a cached value is all it gets.
Read(p) ==
    /\ stack = <<>>
    /\ p \notin DOMAIN cache \/ dirty
    /\ stack' = <<Frame("ask", p)>>
    /\ UNCHANGED <<content, cache, dirty, anchors, owner, grids, blocked>>

\* get_value and _resolve_spill see to the map first, and once.
NeedsMap == /\ stack # <<>>
            /\ \/ Top.call = "ask"
               \/ Top.call \in {"value", "anchor"} /\ content[Top.cell].kind = "sumspill"
            /\ ~ Top.synced
            /\ dirty
            /\ ~ Spilling

\* _sync_spills: the maps are emptied before the pass.
StartPass ==
    /\ NeedsMap
    /\ dirty' = FALSE
    /\ owner' = <<>>
    /\ grids' = <<>>
    /\ blocked' = {}
    /\ LET synced == [stack EXCEPT ![Len(stack)].synced = TRUE]
       IN  stack' = IF anchors = {} THEN synced
                    ELSE Append(synced, [Frame("pass", 0) EXCEPT !.todo = anchors])
    /\ UNCHANGED <<content, cache, anchors>>

Asked == stack # <<>> /\ Top.call = "ask" /\ ~ NeedsMap

AnswerCached ==
    /\ Asked
    /\ Top.cell \in DOMAIN cache
    /\ Return(cache[Top.cell])
    /\ UNCHANGED <<content, cache, dirty, anchors, owner, grids, blocked>>

\* An empty cell, which a spill may have filled.
Element(p) == grids[owner[p]][CHOOSE i \in 1 .. Len(grids[owner[p]]) :
                                 Place(owner[p], content[owner[p]], i) = p]

AnswerEmpty ==
    /\ Asked
    /\ Top.cell \notin DOMAIN cache
    /\ content[Top.cell] = Empty
    /\ \/ /\ Top.cell \in DOMAIN owner
          /\ Return(Element(Top.cell))
          /\ Remember(Top.cell, Element(Top.cell))
       \/ /\ Top.cell \notin DOMAIN owner
          /\ Return(Blank)
          /\ UNCHANGED cache
    /\ UNCHANGED <<content, dirty, anchors, owner, grids, blocked>>

AnswerPlain ==
    /\ Asked
    /\ Top.cell \notin DOMAIN cache
    /\ content[Top.cell].kind = "plain"
    /\ Return(content[Top.cell].size)
    /\ Remember(Top.cell, content[Top.cell].size)
    /\ UNCHANGED <<content, dirty, anchors, owner, grids, blocked>>

\* An anchor shows #SPILL! or the first value of its spill.
AnswerAnchor ==
    /\ Asked
    /\ Top.cell \notin DOMAIN cache
    /\ Top.cell \in blocked \cup DOMAIN grids
    /\ LET v == IF Top.cell \in blocked THEN Spill ELSE grids[Top.cell][1]
       IN  Return(v) /\ Remember(Top.cell, v)
    /\ UNCHANGED <<content, dirty, anchors, owner, grids, blocked>>

Computable == /\ Asked
              /\ Top.cell \notin DOMAIN cache
              /\ IsFormula(content[Top.cell])
              /\ Top.cell \notin blocked \cup DOMAIN grids

AnswerCircular ==
    /\ Computable
    /\ Top.cell \in Computing
    /\ Return(Circ)
    /\ Remember(Top.cell, Circ)
    /\ UNCHANGED <<content, dirty, anchors, owner, grids, blocked>>

Compute ==
    /\ Computable
    /\ Top.cell \notin Computing
    /\ stack' = Append(Rest, Frame("value", Top.cell))
    /\ UNCHANGED <<content, cache, dirty, anchors, owner, grids, blocked>>

-----------------------------------------------------------------------------
Evaluating == stack # <<>> /\ Top.call \in {"value", "anchor"} /\ ~ NeedsMap

\* The formula reads the next of its cells.
ReadSource ==
    /\ Evaluating
    /\ Len(Top.got) < Len(Sources(content[Top.cell]))
    /\ stack' = Append(stack, Frame("ask", Sources(content[Top.cell])[Len(Top.got) + 1]))
    /\ UNCHANGED <<content, cache, dirty, anchors, owner, grids, blocked>>

Evaluated(call) == /\ Evaluating
                   /\ Top.call = call
                   /\ Len(Top.got) = Len(Sources(content[Top.cell]))

\* get_value's end: a list from a formula that was not known to give one makes
\* it an anchor of the next pass, and shows its first value for now.
Deliver ==
    /\ Evaluated("value")
    /\ LET r == Result(content[Top.cell], Top.got)
       IN  /\ Return(First(r.values))
           /\ Remember(Top.cell, First(r.values))
           /\ anchors' = IF r.list THEN anchors \cup {Top.cell} ELSE anchors
           /\ dirty' = (dirty \/ r.list)
    /\ UNCHANGED <<content, owner, grids, blocked>>

HasContent(q) == q \in Cells /\ content[q] # Empty

\* Mutant of Taken: only cells with content are in the way.
TakenByContent(p, q) == q # p /\ HasContent(q)

Taken(p, q) == q # p /\ (HasContent(q) \/ q \in DOMAIN owner)

\* _register_spill: one value needs no room; more claim their cells, or none
\* when one of them is taken.
Register(p, values) ==
    LET region == Region(p, content[p], Len(values))
    IN  IF Len(values) > 1 /\ \E q \in region : Taken(p, q)
        THEN /\ blocked' = blocked \cup {p}
             /\ UNCHANGED <<owner, grids>>
        ELSE /\ grids' = [q \in DOMAIN grids \cup {p} |-> IF q = p THEN values ELSE grids[q]]
             /\ owner' = [q \in DOMAIN owner \cup region |-> IF q \in region THEN p ELSE owner[q]]
             /\ UNCHANGED blocked

\* Mutant of EndAnchor: a spill that is blocked is tried again after the others.
EndAnchorRetries ==
    /\ Evaluated("anchor")
    /\ LET r == Result(content[Top.cell], Top.got)
       IN  IF r.list
           THEN Register(Top.cell, IF r.values = <<>> THEN <<Calc>> ELSE r.values)
           ELSE UNCHANGED <<owner, grids, blocked>>
    /\ stack' = IF Top.cell \in blocked'
                THEN [Rest EXCEPT ![Len(Rest)].todo = @ \cup {Top.cell}]
                ELSE Rest
    /\ UNCHANGED <<content, cache, dirty, anchors>>

\* The pass has the result of an anchor; an empty list shows #CALC!.
EndAnchor ==
    /\ Evaluated("anchor")
    /\ LET r == Result(content[Top.cell], Top.got)
       IN  IF r.list
           THEN Register(Top.cell, IF r.values = <<>> THEN <<Calc>> ELSE r.values)
           ELSE UNCHANGED <<owner, grids, blocked>>
    /\ stack' = Rest
    /\ UNCHANGED <<content, cache, dirty, anchors>>

InPass == stack # <<>> /\ Top.call = "pass"

\* Mutant of NextAnchor: the last of the anchors comes first.
NextAnchorUpward ==
    /\ InPass
    /\ \E p \in Top.todo :
          LET base == [stack EXCEPT ![Len(stack)].todo = @ \ {p}]
          IN  /\ \A q \in Top.todo : q <= p
              /\ stack' = IF p \in Computing THEN base ELSE Append(base, Frame("anchor", p))
    /\ UNCHANGED <<content, cache, dirty, anchors, owner, grids, blocked>>

\* The pass goes to the next of its anchors in row-major order; one that is
\* being computed further out gives #CIRC!, which is no list.
NextAnchor ==
    /\ InPass
    /\ \E p \in Top.todo :
          LET base == [stack EXCEPT ![Len(stack)].todo = @ \ {p}]
          IN  /\ \A q \in Top.todo : p <= q
              /\ stack' = IF p \in Computing THEN base ELSE Append(base, Frame("anchor", p))
    /\ UNCHANGED <<content, cache, dirty, anchors, owner, grids, blocked>>

EndPass ==
    /\ InPass
    /\ Top.todo = {}
    /\ stack' = Rest
    /\ UNCHANGED <<content, cache, dirty, anchors, owner, grids, blocked>>

Work == \/ StartPass
        \/ AnswerCached \/ AnswerEmpty \/ AnswerPlain \/ AnswerAnchor \/ AnswerCircular
        \/ Compute \/ ReadSource \/ Deliver
        \/ NextAnchor \/ EndAnchor \/ EndPass

Next == \/ \E p \in Visible : Read(p)
        \/ \E p \in Cells, c \in Contents : Edit(p, c)
        \/ Work

Spec == Init /\ [][Next]_vars /\ WF_vars(Work)

-----------------------------------------------------------------------------
\* The sheet is at rest with its map made: nothing is being read, and no edit
\* or newly found array has come since the pass.
Settled == stack = <<>> /\ ~ dirty

\* Spills of several values have their cells to themselves: no content lies in
\* them and no other spill, and every cell that shows a spilled value belongs
\* to the spill that the map names.
SpillsAreDisjoint ==
    ~ dirty \/ Spilling =>
        /\ \A p \in DOMAIN grids : Len(grids[p]) > 1 =>
               \A q \in Region(p, content[p], Len(grids[p])) :
                   q \in DOMAIN owner /\ owner[q] = p /\ (HasContent(q) => q = p)
        /\ \A q \in DOMAIN owner :
               owner[q] \in DOMAIN grids \ blocked
               /\ q \in Region(owner[q], content[owner[q]], Len(grids[owner[q]]))

\* An anchor shows #SPILL! for a reason that does not depend on what was read
\* first: of arrays that contend for a cell the one further up and left has it.
FirstAnchorWins ==
    Settled => \A p \in anchors : content[p].kind \in {"sequence", "hidden"} =>
        LET room == Region(p, content[p], content[p].size) \ {p}
        IN  (p \in blocked) <=> \E q \in room :
                HasContent(q) \/ (q \in DOMAIN owner /\ owner[q] < p)

-----------------------------------------------------------------------------
\* What a cell shows: its cached value, or what a read would find at once.
Shown(q) == IF q \in DOMAIN cache THEN cache[q]
            ELSE IF q \in DOMAIN owner /\ ~ HasContent(q) THEN Element(q)
            ELSE IF HasContent(q) THEN content[q].size ELSE Blank

\* The cells that a spill anchored at p may reach, and the cells that its
\* formula reads, directly or through others.
Claims(p) == Region(p, content[p], IF content[p].kind = "filter" THEN Len(content[p].from)
                                   ELSE content[p].size) \cup {p}

IsArray(p) == content[p].kind \in {"filter", "sequence", "hidden"}

ReadsOf(p) == ToSet(content[p].from)
              \cup (IF content[p].kind = "sumspill" THEN UNION {Claims(q) : q \in ToSet(content[p].from)}
                    ELSE {})

Reach(p) ==
    LET reach[n \in 0 .. Cardinality(Cells)] ==
            IF n = 0 THEN ReadsOf(p)
            ELSE LET known == reach[n - 1]
                     owners == {a \in Cells : IsArray(a) /\ Claims(a) \cap known # {}}
                 IN  known \cup UNION {ReadsOf(q) : q \in (known \cap Cells) \cup owners}
    IN  reach[Cardinality(Cells)]

\* Arrays read, directly or through other cells, only arrays that come before
\* them in row-major order, and none is of the hidden kind.
Orderly ==
    /\ \A p \in Cells : content[p].kind # "hidden"
    /\ \A p \in anchors : \A a \in Cells :
           IsArray(a) /\ Claims(a) \cap Reach(p) # {} => a < p

ValueOf(p) == First(Result(content[p], [i \in DOMAIN Sources(content[p]) |->
                                          Shown(Sources(content[p])[i])]).values)

Agrees(p) == content[p].kind \in {"sum", "sumspill"} => cache[p] = ValueOf(p)

Acyclic(p) == \A q \in (Reach(p) \cap Cells) \cup {p} : q \notin Reach(q)

\* Whatever was read first, a scalar formula agrees with the cells that it
\* reads, the spilled ones among them, when arrays read only arrays above
\* them, and for formulas that do not depend on themselves.
OrderlyValuesAgree ==
    Settled /\ Orderly => \A p \in DOMAIN cache : Acyclic(p) => Agrees(p)

\* The same without the condition on the order of arrays.
SpilledCellsFeed ==
    Settled => \A p \in DOMAIN cache : Acyclic(p) => Agrees(p)

\* Every read comes to an end, though a read may start a pass, the pass reads
\* cells, and a list where none was expected asks for another pass.
ReadReturns == stack # <<>> ~> stack = <<>>
=============================================================================
