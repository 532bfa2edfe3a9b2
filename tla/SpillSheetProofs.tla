--------------------------- MODULE SpillSheetProofs --------------------------
(***************************************************************************)
(* Proofs about SpillSheet, for any number of rows and columns, any        *)
(* formulas and any order of reading and editing: spills keep to           *)
(* themselves, of arrays that contend for a cell the first has it, and     *)
(* values agree with the cells that they are made from where arrays read   *)
(* only arrays above them.                                                 *)
(*                                                                         *)
(* First the stack: a step lets the innermost call return or makes one     *)
(* more, and calls stay nested as the code nests them.  From that, what    *)
(* each step does to the anchors that the pass has before it and to the    *)
(* one that it is at.  Then _register_spill, and the invariant action by   *)
(* action.                                                                 *)
(*                                                                         *)
(* The second half is about values.  What a formula reads, through others, *)
(* is closed after as many rounds as there are cells.  A cell is ripe when *)
(* no array that the pass has yet to come to lays claim to it, a formula   *)
(* free when all that it reads is ripe.  Calls go from free formulas to    *)
(* free formulas, so that only values which stay are cached, and a second  *)
(* invariant says so action by action.                                     *)
(***************************************************************************)
EXTENDS SpillSheet, SequenceTheorems, FiniteSetTheorems, WellFoundedInduction, TLAPS

-----------------------------------------------------------------------------
\* Lists of anything.
IsList(s) == /\ Len(s) \in Nat
             /\ s = [i \in 1 .. Len(s) |-> s[i]]

LEMMA SeqIsList ==
    ASSUME NEW S, NEW s \in Seq(S)
    PROVE  IsList(s)
BY DEF IsList

LEMMA ListIsSeq ==
    ASSUME NEW s, IsList(s)
    PROVE  s \in Seq({s[i] : i \in 1 .. Len(s)})
<1> DEFINE S == {s[i] : i \in 1 .. Len(s)}
<1>1. s \in [1 .. Len(s) -> S]
  BY DEF IsList
<1> QED BY <1>1, SeqDef DEF IsList

LEMMA EmptyIsList == IsList(<<>>) /\ Len(<<>>) = 0
BY EmptySeq, SeqIsList

LEMMA Appended ==
    ASSUME NEW s, NEW v, IsList(s)
    PROVE  /\ IsList(Append(s, v))
           /\ Len(Append(s, v)) = Len(s) + 1
           /\ \A i \in 1 .. Len(s) : Append(s, v)[i] = s[i]
           /\ Append(s, v)[Len(s) + 1] = v
<1> DEFINE S == {s[i] : i \in 1 .. Len(s)} \cup {v}
<1>1. s \in Seq({s[i] : i \in 1 .. Len(s)})
  BY ListIsSeq
<1>2. s \in Seq(S)
  BY <1>1, SeqMonotonic
<1>3. v \in S
  OBVIOUS
<1>4. Append(s, v) \in Seq(S)
  BY <1>2, <1>3, AppendProperties
<1>5. IsList(Append(s, v))
  BY <1>4, SeqIsList
<1> HIDE DEF S
<1> QED BY <1>2, <1>3, <1>5, AppendProperties

LEMMA Dropped ==
    ASSUME NEW s, IsList(s), Len(s) > 0
    PROVE  LET r == SubSeq(s, 1, Len(s) - 1)
           IN  /\ IsList(r)
               /\ Len(r) = Len(s) - 1
               /\ \A i \in 1 .. Len(s) - 1 : r[i] = s[i]
               /\ r = <<>> <=> Len(s) = 1
<1> DEFINE S == {s[i] : i \in 1 .. Len(s)}
           r == SubSeq(s, 1, Len(s) - 1)
<1>1. s \in Seq(S)
  BY ListIsSeq
<1>2. Len(s) \in Nat
  BY DEF IsList
<1> HIDE DEF S
<1>3. r \in Seq(S) /\ Len(r) = Len(s) - 1 /\ \A i \in 1 .. Len(s) - 1 : r[i] = s[i]
  <2>1. \A i \in 1 .. Len(s) - 1 : s[i] \in S
    BY <1>1, <1>2, ElementOfSeq
  <2>2. PICK m \in Int : m = Len(s) - 1 /\ 1 <= m + 1
    BY <1>2
  <2>3. /\ SubSeq(s, 1, m) \in Seq(S)
        /\ Len(SubSeq(s, 1, m)) = IF 1 <= m THEN m - 1 + 1 ELSE 0
        /\ \A i \in 1 .. m - 1 + 1 : SubSeq(s, 1, m)[i] = s[1 + i - 1]
    BY <2>1, <2>2, SubSeqProperties
  <2>4. Len(SubSeq(s, 1, m)) = m /\ \A i \in 1 .. m : SubSeq(s, 1, m)[i] = s[i]
    BY <2>2, <2>3
  <2> QED BY <2>2, <2>3, <2>4
<1>4. IsList(r)
  BY <1>3, SeqIsList
<1>5. r = <<>> <=> Len(r) = 0
  BY <1>3, EmptySeq
<1>6. r = <<>> <=> Len(s) = 1
  BY <1>2, <1>3, <1>5
<1> QED BY <1>3, <1>4, <1>6

\* A list with another thing at one place.
Replaced(s, m, g) == [s EXCEPT ![m] = g]

LEMMA ExceptList ==
    ASSUME NEW s, IsList(s), NEW m \in 1 .. Len(s), NEW g
    PROVE  /\ IsList(Replaced(s, m, g))
           /\ Len(Replaced(s, m, g)) = Len(s)
           /\ \A i \in 1 .. Len(s) : Replaced(s, m, g)[i] = IF i = m THEN g ELSE s[i]
<1> DEFINE S == {s[i] : i \in 1 .. Len(s)} \cup {g}
           t == Replaced(s, m, g)
<1>1. s \in Seq({s[i] : i \in 1 .. Len(s)})
  BY ListIsSeq
<1>2. s \in Seq(S) /\ g \in S
  BY <1>1, SeqMonotonic
<1> HIDE DEF S
<1>3. t \in Seq(S) /\ Len(t) = Len(s) /\ \A i \in 1 .. Len(s) : t[i] = IF i = m THEN g ELSE s[i]
  BY <1>2, ExceptSeq DEF Replaced
<1> QED BY <1>3, SeqIsList

-----------------------------------------------------------------------------
(***************************************************************************)
(* The calls in progress.                                                  *)
(***************************************************************************)
IsFrame(f) ==
    /\ f = [call |-> f.call, cell |-> f.cell, got |-> f.got, todo |-> f.todo, synced |-> f.synced]
    /\ f.call \in {"ask", "value", "pass", "anchor"}
    /\ IsList(f.got)

\* What a call works on: a cell of the sheet, a formula, formulas yet to do.
Proper(f, holds) ==
    /\ f.call # "pass" => f.cell \in Cells /\ f.todo = {}
    /\ f.call \in {"value", "anchor"} => IsFormula(holds[f.cell])
    /\ \A p \in f.todo : p \in Cells /\ IsFormula(holds[p])

FramesOK == /\ IsList(stack)
            /\ \A i \in 1 .. Len(stack) : IsFrame(stack[i]) /\ Proper(stack[i], content)

\* There is one pass at a time, and right above it the anchor that it has got
\* to.  A formula that makes its values from nothing calls nobody.
Nested ==
    \A i \in 1 .. Len(stack) :
        /\ stack[i].call = "anchor" => i > 1 /\ stack[i - 1].call = "pass"
        /\ stack[i].call = "pass" =>
              /\ \A j \in 1 .. Len(stack) : stack[j].call = "pass" => j = i
              /\ i < Len(stack) => stack[i + 1].call = "anchor"
        /\ stack[i].call \in {"value", "anchor"} /\ i < Len(stack) =>
              content[stack[i].cell].kind \notin {"sequence", "hidden"}

StackOK == FramesOK /\ Nested

\* The anchors that the pass has before it, the one that it is at, and those
\* that it has a result for.
Todo    == UNION {stack[i].todo : i \in 1 .. Len(stack)}
Current == {stack[i].cell : i \in {j \in 1 .. Len(stack) : stack[j].call = "anchor"}}
Done    == DOMAIN grids \cup blocked

\* The map is being made, or made and up to date.
Mapped == ~ dirty \/ Spilling

-----------------------------------------------------------------------------
(***************************************************************************)
(* The inductive invariant.                                                *)
(***************************************************************************)
SheetOK == /\ content \in [Cells -> Contents]
           /\ dirty \in BOOLEAN
           /\ \A p \in anchors : p \in Cells /\ IsFormula(content[p])

\* The pass goes in row-major order.
InRowOrder ==
    /\ \A p \in Todo : \A q \in Done \cup Current : q < p
    /\ \A p \in Current : \A q \in Done : q < p

\* What the pass has found so far.
MapOK ==
    Mapped =>
        /\ DOMAIN grids \cap blocked = {}
        /\ \A p \in Done : p \in Cells /\ IsFormula(content[p])
        /\ \A p \in DOMAIN grids : Len(grids[p]) \in Nat \ {0}

\* An array of one kind or the other makes its values from nothing.
SelfMade(p) == content[p].kind \in {"sequence", "hidden"}

Contended(p) ==
    \E q \in Region(p, content[p], content[p].size) \ {p} :
        HasContent(q) \/ (q \in DOMAIN owner /\ owner[q] < p)

FirstSoFar == Mapped => \A p \in Done : SelfMade(p) => (p \in blocked <=> Contended(p))

\* The pass forgets no array.
NoneForgotten ==
    ~ dirty => \A p \in anchors : SelfMade(p) => p \in Done \cup Todo \cup Current

IInv == /\ SheetOK
        /\ StackOK
        /\ InRowOrder
        /\ MapOK
        /\ SpillsAreDisjoint
        /\ FirstSoFar
        /\ NoneForgotten

-----------------------------------------------------------------------------
(***************************************************************************)
(* A step lets the innermost call return, or makes one more.               *)
(***************************************************************************)
\* A caller stays what it is but for what it has read.
Keeps(old, new) ==
    IsFrame(new) /\ new.call = old.call /\ new.cell = old.cell /\ new.todo = old.todo

Pops == /\ IsList(stack')
        /\ Len(stack) > 0
        /\ Len(stack') = Len(stack) - 1
        /\ \A i \in 1 .. Len(stack) - 1 : Keeps(stack[i], stack'[i])

Pushes(f) == /\ IsFrame(f)
             /\ IsList(stack')
             /\ Len(stack') = Len(stack) + 1
             /\ \A i \in 1 .. Len(stack) : Keeps(stack[i], stack'[i])
             /\ stack'[Len(stack) + 1] = f

LEMMA NewFrame ==
    ASSUME NEW call \in {"ask", "value", "pass", "anchor"}, NEW p
    PROVE  /\ IsFrame(Frame(call, p))
           /\ Frame(call, p).call = call
           /\ Frame(call, p).cell = p
           /\ Frame(call, p).todo = {}
BY EmptyIsList DEF IsFrame, Frame

LEMMA TopIs ==
    ASSUME FramesOK, stack # <<>>
    PROVE  /\ Len(stack) \in Nat \ {0}
           /\ Top = stack[Len(stack)]
           /\ IsFrame(Top) /\ Proper(Top, content)
<1>1. Len(stack) \in Nat /\ stack \in Seq({stack[i] : i \in 1 .. Len(stack)})
  BY ListIsSeq DEF FramesOK, IsList
<1>2. Len(stack) # 0
  BY <1>1, EmptySeq
<1>3. Len(stack) \in 1 .. Len(stack)
  BY <1>1, <1>2
<1> QED BY <1>1, <1>2, <1>3 DEF FramesOK, Top

LEMMA RestPops ==
    ASSUME FramesOK, stack # <<>>, stack' = Rest
    PROVE  Pops
<1>1. Len(stack) \in Nat \ {0} /\ IsList(stack)
  BY TopIs DEF FramesOK
<1>2. IsList(Rest) /\ Len(Rest) = Len(stack) - 1 /\ \A i \in 1 .. Len(stack) - 1 : Rest[i] = stack[i]
  BY <1>1, Dropped DEF Rest
<1>3. \A i \in 1 .. Len(stack) - 1 : Keeps(stack[i], stack'[i])
  BY <1>1, <1>2 DEF Keeps, FramesOK
<1> QED BY <1>1, <1>2, <1>3 DEF Pops

LEMMA GotChanged ==
    ASSUME NEW f, NEW w,
           f = [call |-> f.call, cell |-> f.cell, got |-> f.got, todo |-> f.todo, synced |-> f.synced]
    PROVE  [f EXCEPT !.got = w] =
           [call |-> f.call, cell |-> f.cell, got |-> w, todo |-> f.todo, synced |-> f.synced]
<1> DEFINE c == f.call
           p == f.cell
           g == f.got
           t == f.todo
           m == f.synced
<1>1. f = [call |-> c, cell |-> p, got |-> g, todo |-> t, synced |-> m]
  OBVIOUS
<1> HIDE DEF c, p, g, t, m
<1>2. [f EXCEPT !.got = w] = [call |-> c, cell |-> p, got |-> w, todo |-> t, synced |-> m]
  BY <1>1
<1> QED BY <1>2 DEF c, p, t, m

LEMMA ReturnPops ==
    ASSUME FramesOK, stack # <<>>, NEW v, Return(v)
    PROVE  Pops
<1>1. Len(stack) \in Nat \ {0} /\ IsList(stack)
  BY TopIs DEF FramesOK
<1>2. /\ IsList(Rest) /\ Len(Rest) = Len(stack) - 1
      /\ \A i \in 1 .. Len(stack) - 1 : Rest[i] = stack[i]
      /\ Rest = <<>> <=> Len(stack) = 1
  BY <1>1, Dropped DEF Rest
<1>3. CASE Rest = <<>>
  <2>1. stack' = <<>> /\ Len(stack) = 1
    BY <1>2, <1>3 DEF Return
  <2>2. IsList(stack') /\ Len(stack') = 0
    BY <2>1, EmptyIsList
  <2> QED BY <2>1, <2>2 DEF Pops
<1>4. CASE Rest # <<>>
  <2> DEFINE m == Len(Rest)
             f == Rest[m]
  <2>1. m \in Nat \ {0} /\ m = Len(stack) - 1 /\ m \in 1 .. m
    BY <1>1, <1>2, <1>4
  <2>2. IsFrame(f) /\ f = stack[m]
    BY <1>1, <1>2, <2>1 DEF FramesOK
  <2>3. stack' = [Rest EXCEPT ![m].got = Append(@, v)]
    BY <1>4 DEF Return
  <2>4. stack' = [Rest EXCEPT ![m] = [f EXCEPT !.got = Append(f.got, v)]]
    BY <2>3
  <2> DEFINE g == [f EXCEPT !.got = Append(f.got, v)]
  <2>5. g = [call |-> f.call, cell |-> f.cell, got |-> Append(f.got, v), todo |-> f.todo,
             synced |-> f.synced]
    BY <2>2, GotChanged DEF IsFrame
  <2>6. IsList(Append(f.got, v))
    BY <2>2, Appended DEF IsFrame
  <2>7. Keeps(f, g)
    <3> HIDE DEF g, f
    <3>1. /\ g.call = f.call /\ g.cell = f.cell /\ g.todo = f.todo /\ g.got = Append(f.got, v)
      BY <2>5
    <3> QED BY <2>2, <2>5, <2>6, <3>1 DEF Keeps, IsFrame
  <2> HIDE DEF g, f, m
  <2>8. stack' = Replaced(Rest, m, g)
    BY <2>4 DEF g, Replaced
  <2>9. m = Len(Rest)
    BY DEF m
  <2>10. IsList(stack') /\ Len(stack') = m /\ \A i \in 1 .. m : stack'[i] = IF i = m THEN g ELSE Rest[i]
    BY <1>2, <2>1, <2>8, <2>9, ExceptList, SMTT(30)
  <2>11. \A i \in 1 .. Len(stack) - 1 : Keeps(stack[i], stack'[i])
    BY <1>1, <1>2, <2>1, <2>2, <2>7, <2>10, SMTT(30) DEF Keeps, FramesOK
  <2> QED BY <1>1, <2>1, <2>10, <2>11 DEF Pops
<1> QED BY <1>3, <1>4

LEMMA AppendPushes ==
    ASSUME FramesOK, NEW f, IsFrame(f), stack' = Append(stack, f)
    PROVE  Pushes(f)
<1>1. IsList(stack)
  BY DEF FramesOK
<1>2. \A i \in 1 .. Len(stack) : Keeps(stack[i], stack[i])
  BY DEF FramesOK, Keeps
<1> QED BY <1>1, <1>2, Appended DEF Pushes

-----------------------------------------------------------------------------
(***************************************************************************)
(* What becomes of the calls, and of the anchors that the pass has to do.  *)
(***************************************************************************)
\* The sets over the stack, spelt out.
LEMMA Members ==
    /\ \A p : p \in Todo <=> \E i \in 1 .. Len(stack) : p \in stack[i].todo
    /\ \A p : p \in Current <=>
          \E i \in 1 .. Len(stack) : stack[i].call = "anchor" /\ p = stack[i].cell
    /\ \A p : p \in Todo' <=> \E i \in 1 .. Len(stack') : p \in stack'[i].todo
    /\ \A p : p \in Current' <=>
          \E i \in 1 .. Len(stack') : stack'[i].call = "anchor" /\ p = stack'[i].cell
BY DEF Todo, Current

LEMMA PopStack ==
    ASSUME StackOK, Pops, UNCHANGED content
    PROVE  StackOK'
<1>1. Len(stack) \in Nat /\ Len(stack') = Len(stack) - 1 /\ Len(stack') \in Nat
  BY DEF StackOK, FramesOK, Pops, IsList
<1>2. \A i \in 1 .. Len(stack') :
         /\ i \in 1 .. Len(stack) /\ i < Len(stack)
         /\ IsFrame(stack'[i])
         /\ stack'[i].call = stack[i].call
         /\ stack'[i].cell = stack[i].cell
         /\ stack'[i].todo = stack[i].todo
  BY <1>1 DEF Pops, Keeps
<1>3. FramesOK'
  BY <1>2 DEF Pops, StackOK, FramesOK, Proper, IsFormula
<1>4. Nested'
  <2> SUFFICES ASSUME NEW i \in 1 .. Len(stack')
               PROVE  /\ stack'[i].call = "anchor" => i > 1 /\ stack'[i - 1].call = "pass"
                      /\ stack'[i].call = "pass" =>
                            /\ \A j \in 1 .. Len(stack') : stack'[j].call = "pass" => j = i
                            /\ i < Len(stack') => stack'[i + 1].call = "anchor"
                      /\ stack'[i].call \in {"value", "anchor"} /\ i < Len(stack') =>
                            content'[stack'[i].cell].kind \notin {"sequence", "hidden"}
    BY DEF Nested
  <2>1. stack'[i].call = "anchor" => i > 1 /\ stack'[i - 1].call = "pass"
    <3> HAVE stack'[i].call = "anchor"
    <3>1. i > 1 /\ stack[i - 1].call = "pass"
      BY <1>1, <1>2 DEF StackOK, Nested
    <3>2. i - 1 \in 1 .. Len(stack')
      BY <1>1, <3>1
    <3> QED BY <1>2, <3>1, <3>2
  <2>2. stack'[i].call = "pass" =>
           /\ \A j \in 1 .. Len(stack') : stack'[j].call = "pass" => j = i
           /\ i < Len(stack') => stack'[i + 1].call = "anchor"
    <3> HAVE stack'[i].call = "pass"
    <3>1. \A j \in 1 .. Len(stack') : stack'[j].call = "pass" => j = i
      BY <1>2 DEF StackOK, Nested
    <3>2. ASSUME i < Len(stack') PROVE stack'[i + 1].call = "anchor"
      <4>1. i + 1 \in 1 .. Len(stack')
        BY <1>1, <3>2
      <4> QED BY <1>2, <4>1 DEF StackOK, Nested
    <3> QED BY <3>1, <3>2
  <2>3. stack'[i].call \in {"value", "anchor"} /\ i < Len(stack') =>
           content'[stack'[i].cell].kind \notin {"sequence", "hidden"}
    BY <1>2 DEF StackOK, Nested
  <2> QED BY <2>1, <2>2, <2>3
<1> QED BY <1>3, <1>4 DEF StackOK

LEMMA PopSets ==
    ASSUME StackOK, Pops
    PROVE  /\ Top.todo = {} => Todo' = Todo
           /\ Top.call # "anchor" => Current' = Current
           /\ Top.call = "anchor" => Current = {Top.cell} /\ Current' = {} /\ Spilling
           /\ Top.call # "pass" => (Spilling' <=> Spilling)
           /\ Top.call = "pass" => ~ Spilling'
<1> DEFINE n == Len(stack)
<1>1. n \in Nat \ {0} /\ Len(stack') = n - 1 /\ Top = stack[n]
  BY DEF StackOK, FramesOK, Pops, IsList, Top
<1>2. \A i \in 1 .. n - 1 :
         /\ stack'[i].call = stack[i].call
         /\ stack'[i].cell = stack[i].cell
         /\ stack'[i].todo = stack[i].todo
  BY DEF Pops, Keeps
<1> HIDE DEF n
<1>3. \A i : i \in 1 .. n <=> i \in 1 .. n - 1 \/ i = n
  BY <1>1
<1>4. Spilling <=> \E i \in 1 .. n : stack[i].call = "pass"
  BY DEF Spilling, n
<1>5. Spilling' <=> \E i \in 1 .. n - 1 : stack'[i].call = "pass"
  BY <1>1 DEF Spilling
<1>6. Top.todo = {} => Todo' = Todo
  <2>1. Top.todo = {} => \A p : p \in Todo <=> p \in Todo'
    BY <1>1, <1>2, <1>3, Members DEF n
  <2> QED BY <2>1
<1>7. Top.call # "anchor" => Current' = Current
  <2>1. Top.call # "anchor" => \A p : p \in Current <=> p \in Current'
    BY <1>1, <1>2, <1>3, Members, SMTT(30) DEF n
  <2> QED BY <2>1
<1>8. \A i \in 1 .. n : stack[i].call = "pass" =>
         /\ \A j \in 1 .. n : stack[j].call = "pass" => j = i
         /\ \A j \in 1 .. n : stack[j].call = "anchor" => j = i + 1
  <2>1. \A i \in 1 .. n : stack[i].call = "pass" =>
           \A j \in 1 .. n : stack[j].call = "pass" => j = i
    BY DEF StackOK, Nested, n
  <2>2. ASSUME NEW i \in 1 .. n, NEW j \in 1 .. n, stack[i].call = "pass", stack[j].call = "anchor"
        PROVE  j = i + 1
    <3>1. j > 1 /\ stack[j - 1].call = "pass"
      BY <2>2 DEF StackOK, Nested, n
    <3>2. j - 1 \in 1 .. n
      BY <1>1, <3>1
    <3> QED BY <2>1, <2>2, <3>1, <3>2
  <2> QED BY <2>1, <2>2
<1>9. ASSUME Top.call = "anchor"
      PROVE  Current = {Top.cell} /\ Current' = {} /\ Spilling
  <2>1. n > 1 /\ stack[n - 1].call = "pass" /\ n \in 1 .. n /\ n - 1 \in 1 .. n
    BY <1>1, <1>9 DEF StackOK, Nested, n
  <2>2. \A j \in 1 .. n : stack[j].call = "anchor" => j = n
    BY <1>1, <1>8, <2>1
  <2>3. \A p : p \in Current <=> p = Top.cell
    BY <1>1, <1>9, <2>1, <2>2, Members DEF n
  <2>4. \A p : p \notin Current'
    BY <1>1, <1>2, <1>3, <2>2, Members
  <2> QED BY <1>4, <2>1, <2>3, <2>4
<1>10. Top.call # "pass" => (Spilling' <=> Spilling)
  BY <1>1, <1>2, <1>3, <1>4, <1>5
<1>11. Top.call = "pass" => ~ Spilling'
  <2>1. Top.call = "pass" => \A i \in 1 .. n - 1 : stack[i].call # "pass"
    BY <1>1, <1>3, <1>8
  <2> QED BY <1>2, <1>5, <2>1
<1> QED BY <1>6, <1>7, <1>9, <1>10, <1>11

\* The calls in progress stay what they are, but for what they have read and
\* for the anchors that the pass has done with; there may be one more.
Alike(old, new) ==
    IsFrame(new) /\ new.call = old.call /\ new.cell = old.cell /\ new.todo \subseteq old.todo

Grows(n) == /\ IsList(stack')
            /\ Len(stack') = n
            /\ \A i \in 1 .. Len(stack) : Alike(stack[i], stack'[i])

\* A call that the innermost one may make.
MayCall(f) ==
    /\ IsFrame(f) /\ Proper(f, content)
    /\ f.call = "pass" => ~ Spilling
    /\ f.call = "anchor" <=> Len(stack) > 0 /\ stack[Len(stack)].call = "pass"
    /\ Len(stack) > 0 /\ stack[Len(stack)].call \in {"value", "anchor"} =>
          content[stack[Len(stack)].cell].kind \notin {"sequence", "hidden"}

LEMMA GrowsProper ==
    ASSUME StackOK, NEW n, Grows(n), UNCHANGED content, NEW i \in 1 .. Len(stack)
    PROVE  /\ IsFrame(stack'[i]) /\ Proper(stack'[i], content) /\ Proper(stack'[i], content')
           /\ stack'[i].call = stack[i].call /\ stack'[i].cell = stack[i].cell
<1>1. Alike(stack[i], stack'[i]) /\ Proper(stack[i], content)
  BY DEF Grows, StackOK, FramesOK
<1> DEFINE f == stack[i]
           g == stack'[i]
<1>2. IsFrame(g) /\ g.call = f.call /\ g.cell = f.cell /\ g.todo \subseteq f.todo /\ Proper(f, content)
  BY <1>1 DEF Alike
<1> HIDE DEF f, g
<1>3. Proper(g, content)
  BY <1>2 DEF Proper
<1> QED BY <1>2, <1>3 DEF f, g, Proper, IsFormula

LEMMA SameDepth ==
    ASSUME StackOK, Grows(Len(stack)), UNCHANGED content
    PROVE  StackOK'
<1>1. Len(stack') = Len(stack) /\ IsList(stack')
  BY DEF Grows
<1>2. FramesOK'
  BY <1>1, GrowsProper DEF FramesOK
<1>3. Nested'
  <2>1. \A i \in 1 .. Len(stack) :
           stack'[i].call = stack[i].call /\ stack'[i].cell = stack[i].cell
    BY GrowsProper
  <2>2. Len(stack) \in Nat
    BY DEF StackOK, FramesOK, IsList
  <2>3. \A i \in 1 .. Len(stack) : stack[i].call = "anchor" => i - 1 \in 1 .. Len(stack)
    BY <2>2 DEF StackOK, Nested
  <2>4. \A i \in 1 .. Len(stack) : i < Len(stack) => i + 1 \in 1 .. Len(stack)
    BY <2>2
  <2> QED BY <1>1, <2>1, <2>3, <2>4 DEF StackOK, Nested
<1> QED BY <1>2, <1>3 DEF StackOK

LEMMA OneDeeper ==
    ASSUME StackOK, Grows(Len(stack) + 1), UNCHANGED content, MayCall(stack'[Len(stack) + 1])
    PROVE  StackOK'
<1> DEFINE n == Len(stack)
           f == stack'[n + 1]
<1>1. n \in Nat /\ Len(stack') = n + 1 /\ IsList(stack')
  BY DEF Grows, StackOK, FramesOK, IsList
<1>2. \A i \in 1 .. n : /\ IsFrame(stack'[i]) /\ Proper(stack'[i], content')
                        /\ stack'[i].call = stack[i].call /\ stack'[i].cell = stack[i].cell
  BY GrowsProper
<1>3. IsFrame(f) /\ Proper(f, content')
  BY DEF MayCall, Proper, IsFormula
<1>4. \A i : i \in 1 .. n + 1 <=> i \in 1 .. n \/ i = n + 1
  BY <1>1
<1>5. FramesOK'
  <2>1. \A i \in 1 .. Len(stack') : IsFrame(stack'[i]) /\ Proper(stack'[i], content')
    BY <1>1, <1>2, <1>3, <1>4
  <2> QED BY <1>1, <2>1 DEF FramesOK
<1>6. \A i \in 1 .. n : stack[i].call = "pass" => f.call # "pass"
  BY DEF MayCall, Spilling
<1>7. ASSUME NEW i \in 1 .. n + 1, stack'[i].call = "anchor"
      PROVE  i > 1 /\ stack'[i - 1].call = "pass"
  <2>1. CASE i \in 1 .. n
    <3>1. i > 1 /\ stack[i - 1].call = "pass"
      BY <1>2, <1>7, <2>1 DEF StackOK, Nested
    <3>2. i - 1 \in 1 .. n
      BY <1>1, <2>1, <3>1
    <3> QED BY <1>2, <3>1, <3>2
  <2>2. CASE i = n + 1
    <3>1. n > 0 /\ stack[n].call = "pass"
      BY <1>7, <2>2 DEF MayCall
    <3>2. n \in 1 .. n /\ i - 1 = n
      BY <1>1, <2>2, <3>1
    <3> QED BY <1>1, <1>2, <2>2, <3>1, <3>2
  <2> QED BY <1>4, <2>1, <2>2
<1>8. ASSUME NEW i \in 1 .. n + 1, NEW j \in 1 .. n + 1,
             stack'[i].call = "pass", stack'[j].call = "pass"
      PROVE  j = i
  BY <1>2, <1>4, <1>6, <1>8 DEF StackOK, Nested
<1>9. ASSUME NEW i \in 1 .. n + 1, stack'[i].call = "pass", i < n + 1
      PROVE  stack'[i + 1].call = "anchor"
  <2>1. i \in 1 .. n /\ stack[i].call = "pass"
    BY <1>1, <1>2, <1>9
  <2>2. CASE i = n
    <3>1. n > 0 /\ stack[n].call = "pass"
      BY <1>1, <2>1, <2>2
    <3> QED BY <2>2, <3>1 DEF MayCall
  <2>3. CASE i # n
    <3>1. i < n /\ i + 1 \in 1 .. n
      BY <1>1, <2>1, <2>3
    <3>2. stack[i + 1].call = "anchor"
      BY <2>1, <3>1 DEF StackOK, Nested
    <3> QED BY <1>2, <3>1, <3>2
  <2> QED BY <2>2, <2>3
<1>10. ASSUME NEW i \in 1 .. n + 1, stack'[i].call \in {"value", "anchor"}, i < n + 1
       PROVE  content'[stack'[i].cell].kind \notin {"sequence", "hidden"}
  <2>1. i \in 1 .. n /\ stack[i].call \in {"value", "anchor"} /\ stack'[i].cell = stack[i].cell
    BY <1>1, <1>2, <1>10
  <2>2. CASE i = n
    <3>1. n > 0
      BY <1>1, <2>1
    <3> QED BY <2>1, <2>2, <3>1 DEF MayCall
  <2>3. CASE i # n
    <3>1. i < n
      BY <1>1, <2>1, <2>3
    <3> QED BY <2>1, <3>1 DEF StackOK, Nested
  <2> QED BY <2>2, <2>3
<1> HIDE DEF n, f
<1>11. Nested'
  BY <1>1, <1>7, <1>8, <1>9, <1>10 DEF Nested
<1> QED BY <1>5, <1>11 DEF StackOK

LEMMA PushGrows ==
    ASSUME NEW f, Pushes(f)
    PROVE  Grows(Len(stack) + 1)
BY DEF Pushes, Grows, Keeps, Alike

LEMMA PushSets ==
    ASSUME StackOK, NEW f, Pushes(f)
    PROVE  /\ Todo' = Todo \cup f.todo
           /\ f.call # "anchor" => Current' = Current
           /\ Spilling' <=> Spilling \/ f.call = "pass"
<1> DEFINE n == Len(stack)
<1>1. n \in Nat /\ Len(stack') = n + 1 /\ stack'[n + 1] = f
  BY DEF StackOK, FramesOK, Pushes, IsList
<1>2. \A i \in 1 .. n :
         /\ stack'[i].call = stack[i].call
         /\ stack'[i].cell = stack[i].cell
         /\ stack'[i].todo = stack[i].todo
  BY DEF Pushes, Keeps
<1>3. \A i : i \in 1 .. n + 1 <=> i \in 1 .. n \/ i = n + 1
  BY <1>1
<1>4. \A p : p \in Todo' <=> p \in Todo \/ p \in f.todo
  BY <1>1, <1>2, <1>3, Members
<1>5. f.call # "anchor" => \A p : p \in Current' <=> p \in Current
  BY <1>1, <1>2, <1>3, Members
<1>6. Spilling <=> \E i \in 1 .. n : stack[i].call = "pass"
  BY DEF Spilling
<1>7. Spilling' <=> \E i \in 1 .. n + 1 : stack'[i].call = "pass"
  BY <1>1 DEF Spilling
<1>8. Spilling' <=> Spilling \/ f.call = "pass"
  BY <1>1, <1>2, <1>3, <1>6, <1>7
<1> QED BY <1>4, <1>5, <1>8

LEMMA TodoChanged ==
    ASSUME NEW f, NEW w,
           f = [call |-> f.call, cell |-> f.cell, got |-> f.got, todo |-> f.todo, synced |-> f.synced]
    PROVE  [f EXCEPT !.todo = w] =
           [call |-> f.call, cell |-> f.cell, got |-> f.got, todo |-> w, synced |-> f.synced]
<1> DEFINE c == f.call
           p == f.cell
           g == f.got
           t == f.todo
           m == f.synced
<1>1. f = [call |-> c, cell |-> p, got |-> g, todo |-> t, synced |-> m]
  OBVIOUS
<1> HIDE DEF c, p, g, t, m
<1>2. [f EXCEPT !.todo = w] = [call |-> c, cell |-> p, got |-> g, todo |-> w, synced |-> m]
  BY <1>1
<1> QED BY <1>2 DEF c, p, g, m

LEMMA SyncedChanged ==
    ASSUME NEW f, NEW w,
           f = [call |-> f.call, cell |-> f.cell, got |-> f.got, todo |-> f.todo, synced |-> f.synced]
    PROVE  [f EXCEPT !.synced = w] =
           [call |-> f.call, cell |-> f.cell, got |-> f.got, todo |-> f.todo, synced |-> w]
<1> DEFINE c == f.call
           p == f.cell
           g == f.got
           t == f.todo
           m == f.synced
<1>1. f = [call |-> c, cell |-> p, got |-> g, todo |-> t, synced |-> m]
  OBVIOUS
<1> HIDE DEF c, p, g, t, m
<1>2. [f EXCEPT !.synced = w] = [call |-> c, cell |-> p, got |-> g, todo |-> t, synced |-> w]
  BY <1>1
<1> QED BY <1>2 DEF c, p, g, t

\* A pass with the anchors to do.
LEMMA PassFrame ==
    ASSUME NEW w, NEW f, f = [Frame("pass", 0) EXCEPT !.todo = w]
    PROVE  IsFrame(f) /\ f.call = "pass" /\ f.todo = w
<1>1. PICK g : g = Frame("pass", 0)
  OBVIOUS
<1>2. IsFrame(g) /\ g.call = "pass"
  BY <1>1, NewFrame
<1>3. f = [call |-> g.call, cell |-> g.cell, got |-> g.got, todo |-> w, synced |-> g.synced]
  BY <1>1, <1>2, TodoChanged DEF IsFrame
<1>4. f.call = g.call /\ f.cell = g.cell /\ f.got = g.got /\ f.todo = w /\ f.synced = g.synced
  BY <1>3
<1> QED BY <1>2, <1>3, <1>4 DEF IsFrame

\* The calls in progress when the pass has p behind it.
Past(p) == [stack EXCEPT ![Len(stack)].todo = @ \ {p}]

LEMMA BaseIs ==
    ASSUME FramesOK, stack # <<>>, NEW p, NEW base, base = Past(p)
    PROVE  /\ IsList(base) /\ Len(base) = Len(stack)
           /\ \A i \in 1 .. Len(stack) - 1 : base[i] = stack[i]
           /\ IsFrame(base[Len(stack)])
           /\ base[Len(stack)].call = Top.call
           /\ base[Len(stack)].cell = Top.cell
           /\ base[Len(stack)].todo = Top.todo \ {p}
<1> DEFINE n == Len(stack)
           f == stack[n]
           g == [f EXCEPT !.todo = f.todo \ {p}]
<1>1. IsList(stack) /\ n \in Nat \ {0} /\ n \in 1 .. n /\ Top = f /\ IsFrame(f)
  BY TopIs DEF FramesOK
<1>2. base = Replaced(stack, n, g)
  BY DEF Past, Replaced
<1>0. n = Len(stack)
  OBVIOUS
<1>3. g = [call |-> f.call, cell |-> f.cell, got |-> f.got, todo |-> f.todo \ {p}, synced |-> f.synced]
  BY <1>1, TodoChanged DEF IsFrame
<1> HIDE DEF n, f, g
<1>4. IsList(base) /\ Len(base) = n /\ \A i \in 1 .. n : base[i] = IF i = n THEN g ELSE stack[i]
  BY <1>0, <1>1, <1>2, ExceptList
<1>5. base[n] = g /\ \A i \in 1 .. n - 1 : base[i] = stack[i]
  BY <1>1, <1>4
<1>6. /\ g.call = f.call /\ g.cell = f.cell /\ g.got = f.got /\ g.todo = f.todo \ {p}
      /\ IsFrame(g)
  <2>1. g.call = f.call /\ g.cell = f.cell /\ g.got = f.got /\ g.todo = f.todo \ {p}
    BY <1>3
  <2> QED BY <1>1, <1>3, <2>1 DEF IsFrame
<1> QED BY <1>1, <1>4, <1>5, <1>6 DEF n

\* The calls in progress when the innermost has run a pass.
Marked == [stack EXCEPT ![Len(stack)].synced = TRUE]

LEMMA MarkedIs ==
    ASSUME FramesOK, stack # <<>>, NEW base, base = Marked
    PROVE  /\ IsList(base) /\ Len(base) = Len(stack)
           /\ \A i \in 1 .. Len(stack) : Keeps(stack[i], base[i]) /\ base[i].got = stack[i].got
           /\ base[Len(stack)].synced
<1> DEFINE n == Len(stack)
           f == stack[n]
           g == [f EXCEPT !.synced = TRUE]
<1>1. IsList(stack) /\ n \in Nat \ {0} /\ n \in 1 .. n /\ IsFrame(f)
  BY TopIs DEF FramesOK
<1>2. base = Replaced(stack, n, g)
  BY DEF Marked, Replaced
<1>0. n = Len(stack)
  OBVIOUS
<1>3. g = [call |-> f.call, cell |-> f.cell, got |-> f.got, todo |-> f.todo, synced |-> TRUE]
  BY <1>1, SyncedChanged DEF IsFrame
<1> HIDE DEF n, f, g
<1>4. IsList(base) /\ Len(base) = n /\ \A i \in 1 .. n : base[i] = IF i = n THEN g ELSE stack[i]
  BY <1>0, <1>1, <1>2, ExceptList
<1>5. Keeps(f, g) /\ g.got = f.got /\ g.synced
  <2>1. g.call = f.call /\ g.cell = f.cell /\ g.got = f.got /\ g.todo = f.todo /\ g.synced = TRUE
    BY <1>3
  <2> QED BY <1>1, <1>3, <2>1 DEF IsFrame, Keeps
<1>6. \A i \in 1 .. n : Keeps(stack[i], stack[i])
  BY DEF FramesOK, Keeps, n
<1> QED BY <1>1, <1>4, <1>5, <1>6 DEF n, f

\* The pass goes to its first anchor, or past it when that one is being
\* computed; an array that makes its values from nothing never is.
LEMMA NextAnchorSets ==
    ASSUME StackOK, NextAnchor
    PROVE  /\ StackOK' /\ Spilling /\ Spilling' /\ Current = {}
           /\ \E p \in Todo :
                 /\ \A q \in Todo : p <= q
                 /\ Todo' = Todo \ {p}
                 /\ Current' = {p} \/ (Current' = {} /\ ~ SelfMade(p))
<1> DEFINE n == Len(stack)
<1>1. n \in Nat \ {0} /\ Top = stack[n] /\ Top.call = "pass" /\ stack # <<>> /\ Proper(Top, content)
  BY TopIs DEF NextAnchor, InPass, StackOK
<1>2. PICK p \in Top.todo :
         LET base == [stack EXCEPT ![Len(stack)].todo = @ \ {p}]
         IN  /\ \A q \in Top.todo : p <= q
             /\ stack' = IF p \in Computing THEN base ELSE Append(base, Frame("anchor", p))
  BY DEF NextAnchor
<1> DEFINE base == Past(p)
<1>4. stack' = IF p \in Computing THEN base ELSE Append(base, Frame("anchor", p))
  BY <1>2 DEF Past
<1>0. base = Past(p)
  OBVIOUS
<1> HIDE DEF base
<1>3. /\ IsList(base) /\ Len(base) = n
      /\ \A i \in 1 .. n - 1 : base[i] = stack[i]
      /\ IsFrame(base[n])
      /\ base[n].call = "pass"
      /\ base[n].cell = stack[n].cell
      /\ base[n].todo = Top.todo \ {p}
  BY <1>0, <1>1, BaseIs DEF StackOK
<1> HIDE DEF n
<1>5. UNCHANGED content
  BY DEF NextAnchor
<1>6. \A i : i \in 1 .. n <=> i \in 1 .. n - 1 \/ i = n
  BY <1>1
<1>7. \A i \in 1 .. n : IsFrame(stack[i])
  BY DEF StackOK, FramesOK, n
<1>8. \A i \in 1 .. n : Alike(stack[i], base[i])
  BY <1>1, <1>3, <1>6, <1>7 DEF Alike
<1>9. \A i \in 1 .. n - 1 : stack[i].call # "pass" /\ stack[i].todo = {} /\ stack[i].call # "anchor"
  <2> SUFFICES ASSUME NEW i \in 1 .. n - 1
               PROVE  stack[i].call # "pass" /\ stack[i].todo = {} /\ stack[i].call # "anchor"
    OBVIOUS
  <2>1. i \in 1 .. n /\ i # n /\ n \in 1 .. n
    BY <1>1
  <2>2. stack[i].call # "pass"
    BY <1>1, <2>1 DEF StackOK, Nested, n
  <2>3. stack[i].todo = {}
    BY <2>1, <2>2 DEF StackOK, FramesOK, Proper, n
  <2>4. ASSUME stack[i].call = "anchor" PROVE FALSE
    <3>1. i > 1 /\ stack[i - 1].call = "pass"
      BY <2>1, <2>4 DEF StackOK, Nested, n
    <3>2. i - 1 \in 1 .. n /\ i - 1 # n
      BY <1>1, <2>1, <3>1
    <3> QED BY <1>1, <2>1, <3>1, <3>2 DEF StackOK, Nested, n
  <2> QED BY <2>2, <2>3, <2>4
<1>10. Todo = Top.todo /\ Current = {}
  <2>1. \A q : q \in Todo <=> q \in Top.todo
    BY <1>1, <1>6, <1>9, Members DEF n
  <2>2. \A q : q \notin Current
    BY <1>1, <1>6, <1>9, Members DEF n
  <2> QED BY <2>1, <2>2
<1>11. Spilling
  BY <1>1, <1>6 DEF Spilling, n
<1>12. p \in Cells /\ IsFormula(content[p])
  BY <1>1, <1>2 DEF Proper
<1>13. CASE p \in Computing
  <2>1. stack' = base
    BY <1>4, <1>13
  <2>2. Grows(n)
    BY <1>3, <1>8, <2>1 DEF Grows, n
  <2>3. StackOK'
    BY <1>5, <2>2, SameDepth DEF n
  <2>4. Len(stack') = n
    BY <1>3, <2>1
  <2>5. \A q : q \in Todo' <=> q \in Todo \ {p}
    BY <1>3, <1>6, <1>9, <1>10, <2>1, <2>4, Members
  <2>6. \A q : q \notin Current'
    BY <1>3, <1>6, <1>9, <2>1, <2>4, Members
  <2>7. Spilling'
    BY <1>1, <1>3, <1>6, <2>1, <2>4 DEF Spilling
  <2>8. ~ SelfMade(p)
    <3>1. PICK i \in 1 .. n : stack[i].call \in {"value", "anchor"} /\ stack[i].cell = p
      BY <1>13 DEF Computing, n
    <3>2. i < n
      BY <1>1, <1>6, <3>1
    <3> QED BY <3>1, <3>2 DEF StackOK, Nested, SelfMade, n
  <2> QED BY <1>2, <1>10, <1>11, <2>3, <2>5, <2>6, <2>7, <2>8
<1>14. CASE p \notin Computing
  <2> DEFINE f == Frame("anchor", p)
  <2>1. stack' = Append(base, f)
    BY <1>4, <1>14
  <2>2. IsFrame(f) /\ f.call = "anchor" /\ f.cell = p /\ f.todo = {}
    BY NewFrame
  <2> HIDE DEF f
  <2>3. /\ IsList(stack') /\ Len(stack') = n + 1
        /\ \A i \in 1 .. n : stack'[i] = base[i]
        /\ stack'[n + 1] = f
    BY <1>3, <2>1, Appended
  <2>4. Grows(n + 1)
    BY <1>8, <2>3 DEF Grows, n
  <2>5. MayCall(f)
    BY <1>1, <1>12, <2>2 DEF MayCall, Proper, n
  <2>6. StackOK'
    BY <1>5, <2>3, <2>4, <2>5, OneDeeper DEF n
  <2>7. \A i : i \in 1 .. n + 1 <=> i \in 1 .. n - 1 \/ i = n \/ i = n + 1
    BY <1>1
  <2>8. /\ \A i \in 1 .. n - 1 : stack'[i] = stack[i]
        /\ stack'[n] = base[n]
    BY <1>1, <1>3, <1>6, <2>3
  <2>9. \A q : q \in Todo' <=> q \in Todo \ {p}
    <3>1. \A q : q \in Todo' <=> \E i \in 1 .. n + 1 : q \in stack'[i].todo
      BY <2>3, Members
    <3>2. stack'[n].todo = Todo \ {p} /\ stack'[n + 1].todo = {}
      BY <1>3, <1>10, <2>2, <2>3, <2>8
    <3>3. \A i \in 1 .. n - 1 : stack'[i].todo = {}
      BY <1>9, <2>8
    <3> QED BY <2>7, <3>1, <3>2, <3>3
  <2>10. \A q : q \in Current' <=> q = p
    BY <1>3, <1>9, <2>2, <2>3, <2>7, <2>8, Members
  <2>11. Spilling'
    BY <1>1, <1>3, <2>3, <2>7, <2>8 DEF Spilling
  <2> QED BY <1>2, <1>10, <1>11, <2>6, <2>9, <2>10, <2>11
<1> QED BY <1>13, <1>14

-----------------------------------------------------------------------------
(***************************************************************************)
(* The calls of get_value and _compute_formula leave the pass where it is. *)
(***************************************************************************)
PassRests == /\ StackOK'
             /\ Todo' = Todo
             /\ Current' = Current
             /\ Spilling' <=> Spilling

LEMMA NoPass ==
    ASSUME StackOK, ~ Spilling
    PROVE  Todo = {} /\ Current = {}
<1>1. \A i \in 1 .. Len(stack) : stack[i].call # "pass"
  BY DEF Spilling
<1>2. \A i \in 1 .. Len(stack) : stack[i].todo = {}
  BY <1>1 DEF StackOK, FramesOK, Proper
<1>3. \A i \in 1 .. Len(stack) : stack[i].call # "anchor"
  <2> SUFFICES ASSUME NEW i \in 1 .. Len(stack), stack[i].call = "anchor" PROVE FALSE
    OBVIOUS
  <2>1. i > 1 /\ stack[i - 1].call = "pass" /\ Len(stack) \in Nat
    BY DEF StackOK, Nested, FramesOK, IsList
  <2>2. i - 1 \in 1 .. Len(stack)
    BY <2>1
  <2> QED BY <1>1, <2>1, <2>2
<1> QED BY <1>2, <1>3, Members

\* A call other than the pass and its anchor returns.
LEMMA CallReturns ==
    ASSUME StackOK, stack # <<>>, Top.call \in {"ask", "value"}, NEW v, Return(v),
           UNCHANGED content
    PROVE  PassRests
<1>1. Pops
  BY ReturnPops DEF StackOK
<1>2. Top.todo = {}
  BY TopIs DEF StackOK, Proper
<1> QED BY <1>1, <1>2, PopStack, PopSets DEF PassRests

LEMMA AnswersRest ==
    ASSUME StackOK, AnswerCached \/ AnswerEmpty \/ AnswerPlain \/ AnswerAnchor \/ AnswerCircular
    PROVE  PassRests
<1>1. /\ stack # <<>> /\ Top.call = "ask"
      /\ UNCHANGED content
      /\ \E v : Return(v)
  BY DEF AnswerCached, AnswerEmpty, AnswerPlain, AnswerAnchor, AnswerCircular, Computable, Asked
<1> QED BY <1>1, CallReturns

LEMMA DeliverRests ==
    ASSUME StackOK, Deliver
    PROVE  PassRests
<1>1. /\ stack # <<>> /\ Top.call = "value"
      /\ UNCHANGED content
      /\ \E v : Return(v)
  BY DEF Deliver, Evaluated, Evaluating
<1> QED BY <1>1, CallReturns

LEMMA ReadRests ==
    ASSUME StackOK, NEW p \in Visible, Read(p)
    PROVE  PassRests
<1> DEFINE f == Frame("ask", p)
<1>1. stack = <<>> /\ stack' = <<f>> /\ UNCHANGED content /\ p \in Cells
  BY SpillAssumption DEF Read
<1>2. IsFrame(f) /\ f.call = "ask" /\ f.cell = p /\ f.todo = {}
  BY NewFrame
<1> HIDE DEF f
<1>3. Len(stack) = 0
  BY <1>1, EmptyIsList
<1>4. stack' \in Seq({f}) /\ Len(stack') = 1 /\ stack'[1] = f
  BY <1>1
<1>5. IsList(stack')
  BY <1>4, SeqIsList
<1>6. Pushes(f)
  BY <1>2, <1>3, <1>4, <1>5 DEF Pushes
<1>7. MayCall(stack'[Len(stack) + 1])
  BY <1>1, <1>2, <1>3, <1>4 DEF MayCall, Proper
<1>8. StackOK'
  BY <1>1, <1>6, <1>7, PushGrows, OneDeeper
<1> QED BY <1>2, <1>6, <1>8, PushSets DEF PassRests

LEMMA ReadSourceRests ==
    ASSUME SheetOK, StackOK, ReadSource
    PROVE  PassRests
<1> DEFINE c == content[Top.cell]
           k == Len(Top.got) + 1
           f == Frame("ask", Sources(c)[k])
<1>1. /\ stack # <<>> /\ Top.call \in {"value", "anchor"} /\ UNCHANGED content
      /\ Len(Top.got) < Len(Sources(c)) /\ stack' = Append(stack, f)
  BY DEF ReadSource, Evaluating
<1>2. /\ Len(stack) \in Nat \ {0} /\ Top = stack[Len(stack)] /\ IsFrame(Top)
      /\ Top.cell \in Cells
  BY <1>1, TopIs DEF StackOK, Proper
<1>3. Len(Top.got) \in Nat
  BY <1>2 DEF IsFrame, IsList
<1>4. c \in Contents
  BY <1>2 DEF SheetOK
<1>5. /\ c.kind \in Kinds /\ c.from \in Seq(Cells)
      /\ c.kind \in {"sequence", "hidden"} => c.from = <<>>
  BY <1>4, SpillAssumption
<1> HIDE DEF c
<1>6. Sources(c) \in Seq(Cells) /\ (c.kind \in {"sequence", "hidden"} => Len(Sources(c)) = 0)
  BY <1>5 DEF Sources
<1>7. Sources(c)[k] \in Cells /\ c.kind \notin {"sequence", "hidden"}
  <2>1. k \in 1 .. Len(Sources(c))
    BY <1>1, <1>3, <1>6
  <2>2. Sources(c)[k] \in Cells
    BY <1>6, <2>1, ElementOfSeq
  <2> QED BY <1>1, <1>3, <1>6, <2>2
<1>8. IsFrame(f) /\ f.call = "ask" /\ f.cell = Sources(c)[k] /\ f.todo = {}
  BY NewFrame
<1> HIDE DEF f, k
<1>9. Pushes(f)
  BY <1>1, <1>8, AppendPushes DEF StackOK
<1>10. MayCall(stack'[Len(stack) + 1])
  BY <1>1, <1>2, <1>7, <1>8, <1>9 DEF MayCall, Proper, Pushes, c
<1>11. StackOK'
  BY <1>1, <1>9, <1>10, PushGrows, OneDeeper
<1> QED BY <1>8, <1>9, <1>11, PushSets DEF PassRests

LEMMA ComputeRests ==
    ASSUME StackOK, Compute
    PROVE  PassRests
<1> DEFINE n == Len(stack)
           f == Frame("value", Top.cell)
<1>1. /\ stack # <<>> /\ Top.call = "ask" /\ UNCHANGED content
      /\ IsFormula(content[Top.cell]) /\ stack' = Append(Rest, f)
  BY DEF Compute, Computable, Asked
<1>2. /\ n \in Nat \ {0} /\ IsList(stack) /\ Top = stack[n] /\ Top.cell \in Cells /\ Top.todo = {}
  BY <1>1, TopIs DEF StackOK, Proper, FramesOK
<1>3. IsList(Rest) /\ Len(Rest) = n - 1 /\ \A i \in 1 .. n - 1 : Rest[i] = stack[i]
  BY <1>2, Dropped DEF Rest
<1>4. IsFrame(f) /\ f.call = "value" /\ f.cell = Top.cell /\ f.todo = {}
  BY NewFrame
<1> HIDE DEF f
<1>5. /\ IsList(stack') /\ Len(stack') = n /\ stack'[n] = f
      /\ \A i \in 1 .. n - 1 : stack'[i] = stack[i]
  <2>1. /\ IsList(stack') /\ Len(stack') = Len(Rest) + 1 /\ stack'[Len(Rest) + 1] = f
        /\ \A i \in 1 .. Len(Rest) : stack'[i] = Rest[i]
    BY <1>1, <1>3, Appended
  <2> QED BY <1>2, <1>3, <2>1
<1>6. \A i : i \in 1 .. n <=> i \in 1 .. n - 1 \/ i = n
  BY <1>2
<1>7. \A i \in 1 .. n : /\ stack'[i].cell = stack[i].cell /\ stack'[i].todo = stack[i].todo
                        /\ stack'[i].call = IF i = n THEN "value" ELSE stack[i].call
                        /\ IsFrame(stack'[i]) /\ Proper(stack'[i], content')
  <2>1. \A i \in 1 .. n : IsFrame(stack[i]) /\ Proper(stack[i], content)
    BY DEF StackOK, FramesOK
  <2>2. \A i \in 1 .. n - 1 : i # n
    BY <1>2
  <2>3. Proper(f, content')
    BY <1>1, <1>2, <1>4 DEF Proper
  <2> QED BY <1>1, <1>2, <1>4, <1>5, <1>6, <2>1, <2>2, <2>3
<1>8. FramesOK'
  BY <1>5, <1>7 DEF FramesOK
<1> HIDE DEF n
<1>9. Len(stack) = n /\ Len(stack') = n /\ content' = content /\ stack[n].call = "ask"
  BY <1>1, <1>2, <1>5 DEF n
<1>10. Nested'
  <2> SUFFICES ASSUME NEW i \in 1 .. n
               PROVE  /\ stack'[i].call = "anchor" => i > 1 /\ stack'[i - 1].call = "pass"
                      /\ stack'[i].call = "pass" =>
                            /\ \A j \in 1 .. n : stack'[j].call = "pass" => j = i
                            /\ i < n => stack'[i + 1].call = "anchor"
                      /\ stack'[i].call \in {"value", "anchor"} /\ i < n =>
                            content[stack'[i].cell].kind \notin {"sequence", "hidden"}
    BY <1>9 DEF Nested
  <2>1. ASSUME stack'[i].call = "anchor" PROVE i > 1 /\ stack'[i - 1].call = "pass"
    <3>1. stack[i].call = "anchor" /\ i # n
      BY <1>7, <2>1
    <3>2. i > 1 /\ stack[i - 1].call = "pass"
      BY <1>9, <3>1 DEF StackOK, Nested
    <3>3. i - 1 \in 1 .. n /\ i - 1 # n
      BY <1>2, <3>2
    <3> QED BY <1>7, <3>2, <3>3
  <2>2. ASSUME stack'[i].call = "pass"
        PROVE  /\ \A j \in 1 .. n : stack'[j].call = "pass" => j = i
               /\ i < n => stack'[i + 1].call = "anchor"
    <3>1. stack[i].call = "pass" /\ i # n
      BY <1>7, <2>2
    <3>2. \A j \in 1 .. n : stack'[j].call = "pass" => j = i
      BY <1>7, <1>9, <3>1 DEF StackOK, Nested
    <3>3. i < n /\ i + 1 \in 1 .. n /\ stack[i + 1].call = "anchor"
      BY <1>2, <1>9, <3>1 DEF StackOK, Nested
    <3>4. i + 1 # n
      BY <1>9, <3>3
    <3> QED BY <1>7, <3>2, <3>3, <3>4
  <2>3. ASSUME stack'[i].call \in {"value", "anchor"}, i < n
        PROVE  content[stack'[i].cell].kind \notin {"sequence", "hidden"}
    <3>1. i # n
      BY <1>2, <2>3
    <3> QED BY <1>7, <1>9, <2>3, <3>1 DEF StackOK, Nested
  <2> QED BY <2>1, <2>2, <2>3
<1>11. Todo' = Todo
  <2>1. \A q : q \in Todo' <=> q \in Todo
    BY <1>7, <1>9, Members
  <2> QED BY <2>1
<1>12. Current' = Current
  <2>1. \A i \in 1 .. n : stack'[i].call = "anchor" <=> stack[i].call = "anchor"
    BY <1>7, <1>9
  <2>2. \A q : q \in Current' <=> q \in Current
    BY <1>7, <1>9, <2>1, Members
  <2> QED BY <2>2
<1>13. Spilling' <=> Spilling
  <2>1. \A i \in 1 .. n : stack'[i].call = "pass" <=> stack[i].call = "pass"
    BY <1>7, <1>9
  <2> QED BY <1>9, <2>1 DEF Spilling
<1> QED BY <1>8, <1>10, <1>11, <1>12, <1>13 DEF PassRests, StackOK

-----------------------------------------------------------------------------
(***************************************************************************)
(* What formulas give.                                                     *)
(***************************************************************************)
LEMMA FunctionIsList ==
    ASSUME NEW n \in Nat, NEW f, f = [k \in 1 .. n |-> f[k]]
    PROVE  IsList(f) /\ Len(f) = n
<1> DEFINE S == {f[k] : k \in 1 .. n}
<1>1. f \in [1 .. n -> S]
  OBVIOUS
<1> HIDE DEF S
<1>2. f \in Seq(S)
  BY <1>1, SeqDef
<1>3. DOMAIN f = 1 .. n
  BY <1>1
<1>4. Len(f) = n
  BY <1>2, <1>3, LenProperties
<1> QED BY <1>2, <1>4, SeqIsList

LEMMA FilteredFits ==
    ASSUME NEW got, IsList(got)
    PROVE  IsList(Filtered(got)) /\ Len(Filtered(got)) <= Len(got)
<1> DEFINE places == {i \in DOMAIN got : got[i] > 0 \/ IsError(got[i])}
           nth(k) == CHOOSE i \in places : Cardinality({j \in places : j <= i}) = k
           m == Cardinality(places)
           f == [k \in 1 .. m |-> got[nth(k)]]
<1>1. Len(got) \in Nat /\ DOMAIN got = 1 .. Len(got)
  BY DEF IsList
<1>2. IsFiniteSet(1 .. Len(got)) /\ Cardinality(1 .. Len(got)) = Len(got)
  <2>1. PICK n \in Nat : n = Len(got)
    BY <1>1
  <2>2. IsFiniteSet(1 .. n) /\ Cardinality(1 .. n) = IF 1 > n THEN 0 ELSE n - 1 + 1
    BY FS_Interval
  <2>3. (IF 1 > n THEN 0 ELSE n - 1 + 1) = n
    OBVIOUS
  <2> QED BY <2>1, <2>2, <2>3, SMTT(30)
<1>3. places \in SUBSET (1 .. Len(got))
  BY <1>1
<1> HIDE DEF places
<1>4. m \in Nat /\ m <= Len(got)
  BY <1>2, <1>3, FS_Subset, FS_CardinalityType
<1>5. Filtered(got) = f
  BY DEF Filtered, places
<1>6. f = [k \in 1 .. m |-> f[k]]
  OBVIOUS
<1> HIDE DEF f, m
<1>7. IsList(f) /\ Len(f) = m
  BY <1>4, <1>6, FunctionIsList
<1> QED BY <1>4, <1>5, <1>7

\* A list has a length, that of an array which makes its values from nothing
\* is known.
LEMMA ResultIs ==
    ASSUME NEW c \in Contents, IsFormula(c), NEW got, IsList(got)
    PROVE  /\ Result(c, got).list => IsList(Result(c, got).values)
           /\ c.kind \in {"sequence", "hidden"} =>
                 Result(c, got).list /\ Len(Result(c, got).values) = c.size
<1>1. /\ c.kind \in {"sum", "filter", "sequence", "hidden", "sumspill"}
      /\ c.size \in Nat
  BY SpillAssumption DEF IsFormula, Kinds
<1>2. \A v : Scalar(v).list = FALSE
  BY DEF Scalar
<1>3. \A v : List(v).list = TRUE /\ List(v).values = v
  BY DEF List
<1>4. CASE c.kind = "sum"
  BY <1>2, <1>4 DEF Result
<1>5. CASE c.kind = "sumspill"
  BY <1>2, <1>5 DEF Result
<1>6. CASE c.kind = "filter"
  BY <1>2, <1>3, <1>6, FilteredFits DEF Result
<1>7. CASE c.kind \in {"sequence", "hidden"}
  <2> DEFINE f == [i \in 1 .. c.size |-> i]
  <2>1. Result(c, got) = List(f)
    BY <1>7 DEF Result
  <2>2. f = [i \in 1 .. c.size |-> f[i]]
    OBVIOUS
  <2> HIDE DEF f
  <2>3. IsList(f) /\ Len(f) = c.size
    BY <1>1, <2>2, FunctionIsList
  <2> QED BY <1>3, <2>1, <2>3
<1> QED BY <1>1, <1>4, <1>5, <1>6, <1>7

LEMMA CellsAreInts == Cells \subseteq Int
BY SpillAssumption DEF Cells

LEMMA RegionIs ==
    ASSUME NEW p \in Int, NEW c, NEW n \in Nat
    PROVE  /\ n = 0 => Region(p, c, n) = {}
           /\ n = 1 => Region(p, c, n) = {p}
           /\ n > 0 => p \in Region(p, c, n)
<1>1. Place(p, c, 1) = p
  BY DEF Place
<1> QED BY <1>1 DEF Region

-----------------------------------------------------------------------------
(***************************************************************************)
(* The pass has the result of an anchor.                                   *)
(***************************************************************************)
LEMMA EndAnchorIs ==
    ASSUME SheetOK, StackOK, EndAnchor
    PROVE  /\ StackOK' /\ Todo' = Todo /\ Current = {Top.cell} /\ Current' = {}
           /\ Spilling /\ Spilling'
           /\ Top.cell \in Cells /\ IsFormula(content[Top.cell])
           /\ UNCHANGED <<content, dirty, anchors>>
           /\ \/ UNCHANGED <<owner, grids, blocked>> /\ ~ SelfMade(Top.cell)
              \/ \E values :
                    /\ Register(Top.cell, values)
                    /\ Len(values) \in Nat \ {0}
                    /\ SelfMade(Top.cell) =>
                          LET size == content[Top.cell].size
                          IN  Len(values) = size \/ (size = 0 /\ Len(values) = 1)
<1> DEFINE p == Top.cell
           c == content[p]
           r == Result(c, Top.got)
           v == IF r.values = <<>> THEN <<Calc>> ELSE r.values
<1>1. /\ stack # <<>> /\ Top.call = "anchor" /\ UNCHANGED <<content, dirty, anchors>>
      /\ stack' = Rest
      /\ IF r.list THEN Register(p, v) ELSE UNCHANGED <<owner, grids, blocked>>
  BY DEF EndAnchor, Evaluated, Evaluating
<1>2. IsFrame(Top) /\ Proper(Top, content)
  BY <1>1, TopIs DEF StackOK
<1>3. p \in Cells /\ IsFormula(c) /\ c \in Contents /\ Top.todo = {} /\ IsList(Top.got)
  BY <1>1, <1>2 DEF Proper, IsFrame, SheetOK
<1>4. Pops
  BY <1>1, RestPops DEF StackOK
<1>5. /\ StackOK' /\ Todo' = Todo /\ Current = {p} /\ Current' = {} /\ Spilling /\ Spilling'
  BY <1>1, <1>3, <1>4, PopStack, PopSets
<1>6. /\ r.list => IsList(r.values)
      /\ SelfMade(p) => r.list /\ Len(r.values) = c.size
  BY <1>3, ResultIs DEF SelfMade
<1>7. r.list => /\ Len(v) \in Nat \ {0}
                /\ SelfMade(p) => Len(v) = c.size \/ (c.size = 0 /\ Len(v) = 1)
  <2> HIDE DEF r, c
  <2>1. CASE r.values = <<>>
    BY <1>6, <2>1, EmptyIsList
  <2>2. CASE r.list /\ r.values # <<>>
    <3>1. v = r.values /\ IsList(r.values)
      BY <1>6, <2>2
    <3>2. Len(r.values) \in Nat /\ r.values \in Seq({r.values[i] : i \in 1 .. Len(r.values)})
      BY <3>1, ListIsSeq DEF IsList
    <3>3. Len(r.values) # 0
      BY <2>2, <3>2, EmptySeq
    <3> QED BY <1>6, <3>1, <3>2, <3>3
  <2> QED BY <2>1, <2>2
<1> HIDE DEF r, v
<1> QED BY <1>1, <1>3, <1>5, <1>6, <1>7

\* The cells of the pass are in order: what is done comes before the anchor
\* that it is at.
LEMMA Earlier ==
    ASSUME IInv, NEW p, Current = {p}
    PROVE  \A d \in Done : d \in Int /\ d < p
BY CellsAreInts, NoPass DEF IInv, InRowOrder, MapOK, Mapped

LEMMA OneOrMore == \A n \in Nat \ {0} : n > 1 <=> n # 1
OBVIOUS

\* An anchor whose turn it is lies in no spill.
LEMMA AnchorIsFree ==
    ASSUME IInv, NEW p, Current = {p}, Mapped, HasContent(p)
    PROVE  p \notin DOMAIN owner
<1> SUFFICES ASSUME p \in DOMAIN owner PROVE FALSE
  OBVIOUS
<1> DEFINE d == owner[p]
<1>1. d \in DOMAIN grids /\ p \in Region(d, content[d], Len(grids[d]))
  BY DEF IInv, SpillsAreDisjoint, Mapped
<1>2. d \in Int /\ d < p /\ Len(grids[d]) \in Nat \ {0}
  BY <1>1, Earlier DEF IInv, MapOK, Done
<1>3. CASE Len(grids[d]) = 1
  BY <1>1, <1>2, <1>3, RegionIs
<1>4. CASE Len(grids[d]) > 1
  <2>1. p = d
    BY <1>1, <1>4 DEF IInv, SpillsAreDisjoint, Mapped
  <2> QED BY <1>2, <2>1
<1>5. Len(grids[d]) = 1 \/ Len(grids[d]) > 1
  BY <1>2, OneOrMore, Zenon
<1> QED BY <1>3, <1>4, <1>5

\* A spill that is registered takes cells that nobody has.
LEMMA Claimed ==
    ASSUME IInv, NEW p \in Cells, Current = {p}, Mapped, HasContent(p),
           NEW values, Len(values) \in Nat \ {0},
           ~ (Len(values) > 1 /\ \E q \in Region(p, content[p], Len(values)) : Taken(p, q))
    PROVE  \A q \in Region(p, content[p], Len(values)) :
               q \notin DOMAIN owner /\ (HasContent(q) => q = p)
<1>1. p \in Int /\ p \notin DOMAIN owner
  BY CellsAreInts, AnchorIsFree
<1>2. CASE Len(values) = 1
  BY <1>1, <1>2, RegionIs
<1>3. CASE Len(values) > 1
  BY <1>1, <1>3 DEF Taken
<1>4. Len(values) = 1 \/ Len(values) > 1
  BY OneOrMore, Zenon
<1> QED BY <1>2, <1>3, <1>4

\* The two outcomes of _register_spill.
LEMMA RegisterIs ==
    ASSUME NEW p, NEW values, Register(p, values)
    PROVE  LET region == Region(p, content[p], Len(values))
               taken  == Len(values) > 1 /\ \E q \in region : Taken(p, q)
           IN  /\ taken => blocked' = blocked \cup {p} /\ UNCHANGED <<owner, grids>>
               /\ ~ taken =>
                     /\ blocked' = blocked
                     /\ DOMAIN grids' = DOMAIN grids \cup {p}
                     /\ grids'[p] = values
                     /\ \A d \in DOMAIN grids : d # p => grids'[d] = grids[d]
                     /\ DOMAIN owner' = DOMAIN owner \cup region
                     /\ \A q \in region : owner'[q] = p
                     /\ \A q \in DOMAIN owner : q \notin region => owner'[q] = owner[q]
<1> DEFINE region == Region(p, content[p], Len(values))
           taken  == Len(values) > 1 /\ \E q \in region : Taken(p, q)
<1>1. IF taken THEN blocked' = blocked \cup {p} /\ UNCHANGED <<owner, grids>>
      ELSE /\ grids' = [q \in DOMAIN grids \cup {p} |-> IF q = p THEN values ELSE grids[q]]
           /\ owner' = [q \in DOMAIN owner \cup region |-> IF q \in region THEN p ELSE owner[q]]
           /\ UNCHANGED blocked
  BY DEF Register
<1> HIDE DEF region, taken
<1>2. CASE taken
  BY <1>1, <1>2 DEF region, taken
<1>3. CASE ~ taken
  <2>1. /\ grids' = [q \in DOMAIN grids \cup {p} |-> IF q = p THEN values ELSE grids[q]]
        /\ owner' = [q \in DOMAIN owner \cup region |-> IF q \in region THEN p ELSE owner[q]]
        /\ UNCHANGED blocked
    BY <1>1, <1>3
  <2>2. /\ blocked' = blocked
        /\ DOMAIN grids' = DOMAIN grids \cup {p}
        /\ grids'[p] = values
        /\ \A d \in DOMAIN grids : d # p => grids'[d] = grids[d]
    BY <2>1
  <2>3. /\ DOMAIN owner' = DOMAIN owner \cup region
        /\ \A q \in region : owner'[q] = p
        /\ \A q \in DOMAIN owner : q \notin region => owner'[q] = owner[q]
    BY <2>1
  <2> QED BY <1>3, <2>2, <2>3 DEF region, taken
<1> QED BY <1>2, <1>3

LEMMA RegisterAdds ==
    ASSUME NEW p, NEW values, Register(p, values)
    PROVE  Done' = Done \cup {p}
<1> DEFINE region == Region(p, content[p], Len(values))
           taken  == Len(values) > 1 /\ \E q \in region : Taken(p, q)
<1>1. CASE taken
  <2>1. blocked' = blocked \cup {p} /\ UNCHANGED grids
    BY <1>1, RegisterIs
  <2> QED BY <2>1 DEF Done
<1>2. CASE ~ taken
  <2>1. blocked' = blocked /\ DOMAIN grids' = DOMAIN grids \cup {p}
    BY <1>2, RegisterIs
  <2> QED BY <2>1 DEF Done
<1> QED BY <1>1, <1>2

LEMMA RegisterKeeps ==
    ASSUME IInv, NEW p \in Cells, IsFormula(content[p]), Current = {p}, Mapped, UNCHANGED content,
           NEW values, Len(values) \in Nat \ {0}, Register(p, values)
    PROVE  MapOK' /\ SpillsAreDisjoint' /\ \A q \in Done' : q \in Done \/ q = p
<1> DEFINE n == Len(values)
           region == Region(p, content[p], n)
           taken  == n > 1 /\ \E q \in region : Taken(p, q)
<1>1. p \in Int /\ HasContent(p) /\ p \notin DOMAIN grids /\ p \notin blocked
  <2>1. \A d \in Done : d \in Int /\ d < p
    BY Earlier
  <2>2. p \notin Done
    BY <2>1
  <2> QED BY <2>2, CellsAreInts DEF HasContent, IsFormula, Empty, Done
<1>2. /\ DOMAIN grids \cap blocked = {}
      /\ \A q \in Done : q \in Cells /\ IsFormula(content[q])
      /\ \A q \in DOMAIN grids : Len(grids[q]) \in Nat \ {0}
  BY DEF IInv, MapOK
<1>3. /\ \A d \in DOMAIN grids : Len(grids[d]) > 1 =>
               \A q \in Region(d, content[d], Len(grids[d])) :
                   q \in DOMAIN owner /\ owner[q] = d /\ (HasContent(q) => q = d)
      /\ \A q \in DOMAIN owner :
               owner[q] \in DOMAIN grids \ blocked
               /\ q \in Region(owner[q], content[owner[q]], Len(grids[owner[q]]))
  BY DEF IInv, SpillsAreDisjoint, Mapped
<1>4. CASE taken
  <2>1. blocked' = blocked \cup {p} /\ UNCHANGED <<owner, grids>>
    BY <1>4, RegisterIs
  <2> HIDE DEF n, region, taken
  <2>2. MapOK' /\ \A q \in Done' : q \in Done \/ q = p
    BY <1>1, <1>2, <2>1 DEF MapOK, Done
  <2>3. SpillsAreDisjoint'
    BY <1>1, <1>3, <2>1 DEF SpillsAreDisjoint, Region, Place, HasContent
  <2> QED BY <2>2, <2>3
<1>5. CASE ~ taken
  <2>1. /\ blocked' = blocked
        /\ DOMAIN grids' = DOMAIN grids \cup {p}
        /\ grids'[p] = values
        /\ \A d \in DOMAIN grids : d # p => grids'[d] = grids[d]
        /\ DOMAIN owner' = DOMAIN owner \cup region
        /\ \A q \in region : owner'[q] = p
        /\ \A q \in DOMAIN owner : q \notin region => owner'[q] = owner[q]
    BY <1>5, RegisterIs
  <2>2. \A q \in region : q \notin DOMAIN owner /\ (HasContent(q) => q = p)
    BY <1>1, <1>5, Claimed
  <2>3. n \in Nat \ {0} /\ Len(grids'[p]) = n
    BY <2>1
  <2> HIDE DEF n
  <2>4. MapOK' /\ \A q \in Done' : q \in Done \/ q = p
    <3>1. \A d \in DOMAIN grids' : Len(grids'[d]) \in Nat \ {0}
      BY <1>1, <1>2, <2>1, <2>3
    <3>2. DOMAIN grids' \cap blocked' = {}
      BY <1>1, <1>2, <2>1
    <3>3. \A q \in Done' : q \in Done \/ q = p
      BY <2>1 DEF Done
    <3> QED BY <1>2, <3>1, <3>2, <3>3 DEF MapOK
  <2> DEFINE in(d, m) == Region(d, content[d], m)
  <2>5. ASSUME NEW d \in DOMAIN grids', Len(grids'[d]) > 1, NEW q \in in(d, Len(grids'[d]))
        PROVE  q \in DOMAIN owner' /\ owner'[q] = d /\ (HasContent(q) => q = d)
    <3>1. CASE d = p
      BY <2>1, <2>2, <2>3, <2>5, <3>1
    <3>2. CASE d # p
      <4>1. d \in DOMAIN grids /\ grids'[d] = grids[d]
        BY <2>1, <3>2
      <4>2. q \in DOMAIN owner /\ owner[q] = d /\ (HasContent(q) => q = d)
        BY <1>3, <2>5, <4>1
      <4> QED BY <2>1, <2>2, <4>2
    <3> QED BY <3>1, <3>2
  <2>6. ASSUME NEW q \in DOMAIN owner'
        PROVE  /\ owner'[q] \in DOMAIN grids' \ blocked'
               /\ q \in in(owner'[q], Len(grids'[owner'[q]]))
    <3>1. CASE q \in region
      BY <1>1, <2>1, <2>3, <3>1
    <3>2. CASE q \notin region
      <4>1. q \in DOMAIN owner /\ owner'[q] = owner[q]
        BY <2>1, <3>2
      <4>2. owner[q] \in DOMAIN grids /\ owner[q] \notin blocked /\ owner[q] # p
        BY <1>1, <1>3, <4>1
      <4> QED BY <1>3, <2>1, <4>1, <4>2
    <3> QED BY <3>1, <3>2
  <2>7. \A d, m : in(d, m) = Region(d, content'[d], m)
    OBVIOUS
  <2>8. \A q : HasContent(q)' <=> HasContent(q)
    BY DEF HasContent
  <2> HIDE DEF in, region, taken
  <2>9. /\ \A d \in DOMAIN grids' : Len(grids'[d]) > 1 =>
               \A q \in Region(d, content'[d], Len(grids'[d])) :
                   q \in DOMAIN owner' /\ owner'[q] = d /\ (HasContent(q)' => q = d)
        /\ \A q \in DOMAIN owner' :
               owner'[q] \in DOMAIN grids' \ blocked'
               /\ q \in Region(owner'[q], content'[owner'[q]], Len(grids'[owner'[q]]))
    BY <2>5, <2>6, <2>7, <2>8
  <2> QED BY <2>4, <2>9 DEF SpillsAreDisjoint
<1> QED BY <1>4, <1>5

LEMMA RegisterFirst ==
    ASSUME IInv, NEW p \in Cells, IsFormula(content[p]), Current = {p}, Mapped, UNCHANGED content,
           NEW values, Len(values) \in Nat \ {0}, Register(p, values),
           SelfMade(p) => LET size == content[p].size
                          IN  Len(values) = size \/ (size = 0 /\ Len(values) = 1)
    PROVE  FirstSoFar'
<1> DEFINE n == Len(values)
           size == content[p].size
           region == Region(p, content[p], n)
           taken  == n > 1 /\ \E q \in region : Taken(p, q)
<1>1. p \in Int /\ HasContent(p) /\ p \notin DOMAIN grids /\ p \notin blocked
      /\ \A d \in Done : d \in Int /\ d < p
  <2>1. \A d \in Done : d \in Int /\ d < p
    BY Earlier
  <2> QED BY <2>1, CellsAreInts DEF HasContent, IsFormula, Empty, Done
<1>2. \A q \in Done' : q \in Done \/ q = p
  BY RegisterKeeps
<1>3. \A d \in Done : SelfMade(d) => (d \in blocked <=> Contended(d))
  BY DEF IInv, FirstSoFar
<1>4. \A q \in DOMAIN owner : owner[q] \in Int /\ owner[q] < p
  BY <1>1 DEF IInv, SpillsAreDisjoint, Mapped, Done
<1>5. \A q : HasContent(q)' <=> HasContent(q)
  BY DEF HasContent
<1>6. \A d : SelfMade(d)' <=> SelfMade(d)
  BY DEF SelfMade
<1>7. n \in Nat \ {0} /\ (SelfMade(p) => n = size \/ (size = 0 /\ n = 1))
  OBVIOUS
<1> DEFINE room(d) == Region(d, content[d], content[d].size) \ {d}
<1>8. \A d : Contended(d) <=>
          \E q \in room(d) : HasContent(q) \/ (q \in DOMAIN owner /\ owner[q] < d)
  BY DEF Contended
<1>9. \A d : Contended(d)' <=>
          \E q \in room(d) : HasContent(q) \/ (q \in DOMAIN owner' /\ owner'[q] < d)
  BY <1>5 DEF Contended
<1>10. SelfMade(p) => room(p) = IF n > 1 THEN region \ {p} ELSE {}
  <2>1. CASE SelfMade(p) /\ n > 1
    <3>1. n = size
      BY <1>7, <2>1, OneOrMore, Zenon
    <3> QED BY <2>1, <3>1, Zenon
  <2>2. CASE SelfMade(p) /\ n = 1
    <3>1. size \in {0, 1}
      BY <1>7, <2>2
    <3>2. Region(p, content[p], size) \subseteq {p}
      BY <1>1, <3>1, RegionIs
    <3> QED BY <2>2, <3>2
  <2>3. n = 1 \/ n > 1
    BY <1>7, OneOrMore, Zenon
  <2> QED BY <2>1, <2>2, <2>3
<1>11. CASE taken
  <2>1. blocked' = blocked \cup {p} /\ UNCHANGED <<owner, grids>>
    BY <1>11, RegisterIs
  <2>2. SelfMade(p) => Contended(p)
    <3>1. PICK q \in region : q # p /\ (HasContent(q) \/ q \in DOMAIN owner)
      BY <1>11 DEF Taken
    <3>2. HasContent(q) \/ (q \in DOMAIN owner /\ owner[q] < p)
      BY <1>4, <3>1
    <3> QED BY <1>8, <1>10, <1>11, <3>1, <3>2
  <2> HIDE DEF n, region, taken, room
  <2>3. \A d : Contended(d)' <=> Contended(d)
    BY <1>8, <1>9, <2>1
  <2> QED BY <1>1, <1>2, <1>3, <1>6, <2>1, <2>2, <2>3 DEF FirstSoFar
<1>12. CASE ~ taken
  <2>1. /\ blocked' = blocked
        /\ DOMAIN owner' = DOMAIN owner \cup region
        /\ \A q \in region : owner'[q] = p
        /\ \A q \in DOMAIN owner : q \notin region => owner'[q] = owner[q]
    BY <1>12, RegisterIs
  <2>2. \A q \in region : q \notin DOMAIN owner /\ (HasContent(q) => q = p)
    BY <1>1, <1>12, Claimed
  <2> HIDE DEF n, region, taken, room, size
  <2>3. \A d \in Done : Contended(d)' <=> Contended(d)
    <3>1. ASSUME NEW d \in Done, NEW q
          PROVE  q \in DOMAIN owner' /\ owner'[q] < d <=> q \in DOMAIN owner /\ owner[q] < d
      <4>1. CASE q \in region
        BY <1>1, <2>1, <2>2, <3>1, <4>1
      <4>2. CASE q \notin region
        BY <2>1, <4>2
      <4> QED BY <4>1, <4>2
    <3> QED BY <1>8, <1>9, <3>1
  <2>4. SelfMade(p) => ~ Contended(p)'
    <3> SUFFICES ASSUME SelfMade(p), NEW q \in room(p),
                        HasContent(q) \/ (q \in DOMAIN owner' /\ owner'[q] < p)
                 PROVE  FALSE
      BY <1>9
    <3>1. q \in region /\ q # p
      BY <1>10
    <3> QED BY <1>1, <2>1, <2>2, <3>1
  <2> QED BY <1>1, <1>2, <1>3, <1>6, <2>1, <2>3, <2>4 DEF FirstSoFar
<1> QED BY <1>11, <1>12

-----------------------------------------------------------------------------
(***************************************************************************)
(* The invariant, action by action.                                        *)
(***************************************************************************)
\* A step that registers nothing and leaves the pass where it is; it may find
\* an array that asks for another pass.
LEMMA QuietStep ==
    ASSUME IInv, StackOK', Todo' = Todo, Current' = Current,
           UNCHANGED <<content, owner, grids, blocked>>,
           dirty' \in BOOLEAN, dirty => dirty', Spilling' => Spilling,
           \A p \in anchors' : p \in Cells /\ IsFormula(content[p]),
           ~ dirty' => anchors' = anchors
    PROVE  IInv'
<1>1. (Mapped' => Mapped) /\ Done' = Done
  BY DEF Mapped, Done
<1>2. SheetOK'
  BY DEF IInv, SheetOK
<1>3. InRowOrder'
  BY <1>1 DEF IInv, InRowOrder
<1>4. MapOK'
  BY <1>1 DEF IInv, MapOK
<1>5. SpillsAreDisjoint'
  <2>1. ~ dirty' \/ Spilling' => ~ dirty \/ Spilling
    BY <1>1 DEF Mapped
  <2> QED BY <2>1 DEF IInv, SpillsAreDisjoint, Region, Place, HasContent
<1>6. FirstSoFar'
  BY <1>1 DEF IInv, FirstSoFar, Contended, SelfMade, Region, Place, HasContent
<1>7. NoneForgotten'
  BY <1>1 DEF IInv, NoneForgotten, SelfMade
<1> QED BY <1>2, <1>3, <1>4, <1>5, <1>6, <1>7 DEF IInv

LEMMA CallsKeep ==
    ASSUME IInv,
           \/ \E p \in Visible : Read(p)
           \/ AnswerCached \/ AnswerEmpty \/ AnswerPlain \/ AnswerAnchor \/ AnswerCircular
           \/ Compute \/ ReadSource
    PROVE  IInv'
<1>1. PassRests
  BY AnswersRest, ReadRests, ComputeRests, ReadSourceRests DEF IInv
<1>2. UNCHANGED <<content, dirty, anchors, owner, grids, blocked>>
  BY DEF Read, AnswerCached, AnswerEmpty, AnswerPlain, AnswerAnchor, AnswerCircular, Compute,
         ReadSource
<1> QED BY <1>1, <1>2, QuietStep DEF PassRests, IInv, SheetOK

LEMMA DeliverKeeps ==
    ASSUME IInv, Deliver
    PROVE  IInv'
<1> DEFINE r == Result(content[Top.cell], Top.got)
<1>1. PassRests
  BY DeliverRests DEF IInv
<1>2. /\ stack # <<>> /\ Top.call = "value"
      /\ UNCHANGED <<content, owner, grids, blocked>>
      /\ anchors' = IF r.list THEN anchors \cup {Top.cell} ELSE anchors
      /\ dirty' = (dirty \/ r.list)
  BY DEF Deliver, Evaluated, Evaluating
<1> HIDE DEF r
<1>3. Top.cell \in Cells /\ IsFormula(content[Top.cell])
  BY <1>2, TopIs DEF IInv, StackOK, Proper
<1>4. \A p \in anchors' : p \in Cells /\ IsFormula(content[p])
  BY <1>2, <1>3 DEF IInv, SheetOK
<1>5. dirty' \in BOOLEAN /\ (dirty => dirty') /\ (~ dirty' => anchors' = anchors)
  <2>1. CASE r.list
    BY <1>2, <2>1
  <2>2. CASE ~ r.list
    BY <1>2, <2>2 DEF IInv, SheetOK
  <2> QED BY <2>1, <2>2
<1> QED BY <1>1, <1>2, <1>4, <1>5, QuietStep DEF PassRests

LEMMA EndPassKeeps ==
    ASSUME IInv, EndPass
    PROVE  IInv'
<1>1. /\ stack # <<>> /\ Top.call = "pass" /\ Top.todo = {} /\ stack' = Rest
      /\ UNCHANGED <<content, dirty, anchors, owner, grids, blocked>>
  BY DEF EndPass, InPass
<1>2. Pops
  BY <1>1, RestPops DEF IInv, StackOK
<1>3. StackOK' /\ Todo' = Todo /\ Current' = Current /\ ~ Spilling'
  BY <1>1, <1>2, PopStack, PopSets DEF IInv
<1> QED BY <1>1, <1>3, QuietStep DEF IInv, SheetOK

LEMMA NextAnchorKeeps ==
    ASSUME IInv, NextAnchor
    PROVE  IInv'
<1>1. UNCHANGED <<content, dirty, anchors, owner, grids, blocked>>
  BY DEF NextAnchor
<1>2. StackOK' /\ Spilling /\ Spilling' /\ Current = {}
  BY NextAnchorSets DEF IInv
<1>3. PICK p \in Todo :
         /\ \A q \in Todo : p <= q
         /\ Todo' = Todo \ {p}
         /\ Current' = {p} \/ (Current' = {} /\ ~ SelfMade(p))
  BY NextAnchorSets DEF IInv
<1>4. \A q \in Todo : q \in Int
  <2>1. \A q \in Todo : q \in Cells
    BY Members DEF IInv, StackOK, FramesOK, Proper
  <2> QED BY <2>1, CellsAreInts
<1>5. Mapped /\ Mapped' /\ Done' = Done
  BY <1>1, <1>2 DEF Mapped, Done
<1>6. SheetOK'
  BY <1>1 DEF IInv, SheetOK
<1>7. InRowOrder'
  <2>1. \A q \in Todo' : p < q /\ \A d \in Done : d < q
    BY <1>3, <1>4 DEF IInv, InRowOrder
  <2>2. \A c \in Current' : c = p
    BY <1>3
  <2>3. \A d \in Done : d < p
    BY <1>3 DEF IInv, InRowOrder
  <2> QED BY <1>5, <2>1, <2>2, <2>3 DEF InRowOrder
<1>8. MapOK'
  BY <1>1, <1>5 DEF IInv, MapOK
<1>9. SpillsAreDisjoint'
  BY <1>1, <1>2 DEF IInv, SpillsAreDisjoint, Region, Place, HasContent
<1>10. FirstSoFar'
  BY <1>1, <1>5 DEF IInv, FirstSoFar, Contended, SelfMade, Region, Place, HasContent
<1>11. NoneForgotten'
  <2>1. \A q : SelfMade(q)' <=> SelfMade(q)
    BY <1>1 DEF SelfMade
  <2> QED BY <1>1, <1>2, <1>3, <1>5, <2>1 DEF IInv, NoneForgotten
<1> QED BY <1>2, <1>6, <1>7, <1>8, <1>9, <1>10, <1>11 DEF IInv

\* The marks of the calls change nothing else.
LEMMA MarkedSets ==
    ASSUME StackOK, stack # <<>>, stack' = Marked, UNCHANGED content
    PROVE  StackOK' /\ Todo' = Todo /\ Current' = Current
<1>1. /\ IsList(stack') /\ Len(stack') = Len(stack)
      /\ \A i \in 1 .. Len(stack) : Keeps(stack[i], stack'[i])
  BY MarkedIs DEF StackOK
<1>2. Grows(Len(stack))
  BY <1>1 DEF Grows, Keeps, Alike
<1>3. \A i \in 1 .. Len(stack) : /\ stack'[i].call = stack[i].call
                                 /\ stack'[i].cell = stack[i].cell
                                 /\ stack'[i].todo = stack[i].todo
  BY <1>1 DEF Keeps
<1>4. \A p : (p \in Todo <=> p \in Todo') /\ (p \in Current <=> p \in Current')
  BY <1>1, <1>3, Members
<1> QED BY <1>2, <1>4, SameDepth

LEMMA MarkedPushes ==
    ASSUME FramesOK, stack # <<>>, NEW f, IsFrame(f), stack' = Append(Marked, f)
    PROVE  /\ Pushes(f)
           /\ \A i \in 1 .. Len(stack) : stack'[i].got = stack[i].got
<1> DEFINE base == Marked
<1>0. stack' = Append(base, f)
  OBVIOUS
<1>1. /\ IsList(base) /\ Len(base) = Len(stack)
      /\ \A i \in 1 .. Len(stack) : Keeps(stack[i], base[i]) /\ base[i].got = stack[i].got
  BY MarkedIs
<1> HIDE DEF base
<1>2. /\ IsList(Append(base, f))
      /\ Len(Append(base, f)) = Len(base) + 1
      /\ \A i \in 1 .. Len(base) : Append(base, f)[i] = base[i]
      /\ Append(base, f)[Len(base) + 1] = f
  BY <1>1, Appended
<1> QED BY <1>0, <1>1, <1>2 DEF Pushes

LEMMA StartPassKeeps ==
    ASSUME IInv, StartPass
    PROVE  IInv'
<1> DEFINE f == [Frame("pass", 0) EXCEPT !.todo = anchors]
<1>1. /\ stack # <<>> /\ ~ Spilling
      /\ Top.call = "ask" \/ (Top.call \in {"value", "anchor"} /\ content[Top.cell].kind = "sumspill")
      /\ dirty' = FALSE /\ DOMAIN owner' = {} /\ DOMAIN grids' = {} /\ blocked' = {}
      /\ stack' = IF anchors = {} THEN Marked ELSE Append(Marked, f)
      /\ UNCHANGED <<content, anchors>>
  BY DEF StartPass, NeedsMap, Marked
<1>2. /\ Len(stack) \in Nat \ {0} /\ Top = stack[Len(stack)]
  BY <1>1, TopIs DEF IInv, StackOK
<1>3. IsFrame(f) /\ f.call = "pass" /\ f.todo = anchors
  BY PassFrame
<1> HIDE DEF f
<1>4. Todo = {} /\ Current = {}
  BY <1>1, NoPass DEF IInv
<1>5. StackOK' /\ Todo' = anchors /\ Current' = {}
  <2>1. CASE anchors = {}
    BY <1>1, <1>4, <2>1, MarkedSets DEF IInv
  <2>2. CASE anchors # {}
    <3>1. Pushes(f)
      BY <1>1, <1>3, <2>2, MarkedPushes DEF IInv, StackOK
    <3>2. MayCall(f)
      BY <1>1, <1>2, <1>3 DEF MayCall, Proper, IInv, SheetOK
    <3>3. StackOK'
      BY <1>1, <3>1, <3>2, PushGrows, OneDeeper DEF IInv, Pushes
    <3> QED BY <1>3, <1>4, <3>1, <3>3, PushSets DEF IInv
  <2> QED BY <2>1, <2>2
<1>6. Done' = {}
  BY <1>1 DEF Done
<1>7. SheetOK'
  BY <1>1 DEF IInv, SheetOK
<1>8. InRowOrder' /\ MapOK' /\ FirstSoFar'
  BY <1>1, <1>5, <1>6 DEF InRowOrder, MapOK, FirstSoFar
<1>9. SpillsAreDisjoint'
  BY <1>1 DEF SpillsAreDisjoint
<1>10. NoneForgotten'
  BY <1>1, <1>5 DEF NoneForgotten
<1> QED BY <1>5, <1>7, <1>8, <1>9, <1>10 DEF IInv

LEMMA EndAnchorKeeps ==
    ASSUME IInv, EndAnchor
    PROVE  IInv'
<1> DEFINE p == Top.cell
<1>1. /\ StackOK' /\ Todo' = Todo /\ Current = {p} /\ Current' = {}
      /\ Spilling /\ Spilling'
      /\ p \in Cells /\ IsFormula(content[p])
      /\ UNCHANGED <<content, dirty, anchors>>
  BY EndAnchorIs DEF IInv
<1>2. \/ UNCHANGED <<owner, grids, blocked>> /\ ~ SelfMade(p)
      \/ \E values :
            /\ Register(p, values)
            /\ Len(values) \in Nat \ {0}
            /\ SelfMade(p) => LET size == content[p].size
                              IN  Len(values) = size \/ (size = 0 /\ Len(values) = 1)
  BY EndAnchorIs DEF IInv
<1> HIDE DEF p
<1>3. Mapped /\ Mapped'
  BY <1>1 DEF Mapped
<1>4. SheetOK'
  BY <1>1 DEF IInv, SheetOK
<1>5. \A q : SelfMade(q)' <=> SelfMade(q)
  BY <1>1 DEF SelfMade
<1>6. /\ MapOK' /\ SpillsAreDisjoint' /\ FirstSoFar'
      /\ Done \subseteq Done' /\ \A q \in Done' : q \in Done \/ q = p
      /\ SelfMade(p) => p \in Done'
  <2>1. CASE UNCHANGED <<owner, grids, blocked>> /\ ~ SelfMade(p)
    <3>1. Done' = Done
      BY <2>1 DEF Done
    <3>2. MapOK'
      BY <1>1, <1>3, <2>1, <3>1 DEF IInv, MapOK
    <3>3. SpillsAreDisjoint'
      BY <1>1, <2>1 DEF IInv, SpillsAreDisjoint, Region, Place, HasContent
    <3>4. FirstSoFar'
      BY <1>1, <1>3, <2>1, <3>1 DEF IInv, FirstSoFar, Contended, SelfMade, Region, Place, HasContent
    <3> QED BY <2>1, <3>1, <3>2, <3>3, <3>4
  <2>2. ASSUME NEW values, Register(p, values), Len(values) \in Nat \ {0},
               SelfMade(p) => LET size == content[p].size
                              IN  Len(values) = size \/ (size = 0 /\ Len(values) = 1)
        PROVE  /\ MapOK' /\ SpillsAreDisjoint' /\ FirstSoFar'
               /\ Done \subseteq Done' /\ \A q \in Done' : q \in Done \/ q = p
               /\ p \in Done'
    <3>1. MapOK' /\ SpillsAreDisjoint' /\ \A q \in Done' : q \in Done \/ q = p
      BY <1>1, <1>3, <2>2, RegisterKeeps
    <3>2. FirstSoFar'
      BY <1>1, <1>3, <2>2, RegisterFirst
    <3>3. Done \subseteq Done' /\ p \in Done'
      BY <2>2, RegisterAdds
    <3> QED BY <3>1, <3>2, <3>3
  <2> QED BY <1>2, <2>1, <2>2
<1>7. InRowOrder'
  BY <1>1, <1>6 DEF IInv, InRowOrder
<1>8. NoneForgotten'
  BY <1>1, <1>5, <1>6 DEF IInv, NoneForgotten
<1> QED BY <1>1, <1>4, <1>6, <1>7, <1>8 DEF IInv

LEMMA EditKeeps ==
    ASSUME IInv, NEW p \in Cells, NEW c \in Contents, Edit(p, c)
    PROVE  IInv'
<1>1. /\ stack = <<>> /\ stack' = <<>> /\ dirty' = TRUE
      /\ content' = [content EXCEPT ![p] = c]
      /\ anchors' = IF IsCandidate(c) THEN anchors \cup {p} ELSE anchors \ {p}
  BY DEF Edit
<1>2. Len(stack') = 0 /\ IsList(stack')
  BY <1>1, EmptyIsList
<1>3. StackOK' /\ Todo' = {} /\ Current' = {} /\ ~ Spilling'
  BY <1>2 DEF StackOK, FramesOK, Nested, Todo, Current, Spilling
<1>4. SheetOK'
  <2>1. content' \in [Cells -> Contents] /\ content'[p] = c
        /\ \A q \in Cells : q # p => content'[q] = content[q]
    BY <1>1 DEF IInv, SheetOK
  <2>2. IsCandidate(c) => IsFormula(c)
    BY DEF IsCandidate, IsFormula
  <2> QED BY <1>1, <2>1, <2>2 DEF IInv, SheetOK
<1>5. ~ Mapped' /\ dirty'
  BY <1>1, <1>3 DEF Mapped
<1> QED BY <1>3, <1>4, <1>5 DEF IInv, InRowOrder, MapOK, SpillsAreDisjoint, FirstSoFar,
                                NoneForgotten, Mapped

\* The inductive invariant holds always: calls are nested as the code nests
\* them, and the pass goes in row-major order, forgets no array and has the
\* map right as far as it has come (Sheet._sync_spills, Sheet.get_value).
THEOREM SpillInvariant == Spec => []IInv
<1>1. Init => IInv
  <2> SUFFICES ASSUME Init PROVE IInv
    OBVIOUS
  <2>1. /\ content \in [Cells -> Contents] /\ dirty = TRUE /\ stack = <<>>
        /\ anchors = {p \in Cells : IsCandidate(content[p])}
    BY DEF Init
  <2>2. Len(stack) = 0 /\ IsList(stack)
    BY <2>1, EmptyIsList
  <2>3. StackOK /\ Todo = {} /\ Current = {} /\ ~ Spilling
    BY <2>2 DEF StackOK, FramesOK, Nested, Todo, Current, Spilling
  <2>4. SheetOK
    BY <2>1 DEF SheetOK, IsCandidate, IsFormula
  <2> QED BY <2>1, <2>3, <2>4 DEF IInv, InRowOrder, MapOK, SpillsAreDisjoint, FirstSoFar,
                                  NoneForgotten, Mapped
<1>2. IInv /\ [Next]_vars => IInv'
  <2> SUFFICES ASSUME IInv, [Next]_vars PROVE IInv'
    OBVIOUS
  <2>1. CASE UNCHANGED vars
    <3>1. UNCHANGED <<content, cache, dirty, anchors, owner, grids, blocked, stack>>
      BY <2>1 DEF vars
    <3>2. StackOK' /\ Todo' = Todo /\ Current' = Current /\ (Spilling' <=> Spilling)
      BY <3>1 DEF IInv, StackOK, FramesOK, Nested, Proper, IsFormula, Todo, Current, Spilling
    <3> QED BY <3>1, <3>2, QuietStep DEF IInv, SheetOK
  <2>2. CASE \E p \in Cells, c \in Contents : Edit(p, c)
    BY <2>2, EditKeeps
  <2> QED BY <2>1, <2>2, CallsKeep, DeliverKeeps, EndPassKeeps, NextAnchorKeeps, StartPassKeeps,
             EndAnchorKeeps DEF Next, Work
<1> QED BY <1>1, <1>2, PTL DEF Spec

\* Spills of several values have their cells to themselves, at every step of
\* the pass as after it (Sheet._register_spill).
THEOREM DisjointSpills == Spec => []SpillsAreDisjoint
<1>1. IInv => SpillsAreDisjoint
  BY DEF IInv
<1> QED BY <1>1, SpillInvariant, PTL

\* Of arrays that contend for a cell the one further up and left has it, in
\* whatever order cells were written, read and found to be arrays.
THEOREM FirstWins == Spec => []FirstAnchorWins
<1>1. IInv => FirstAnchorWins
  <2> SUFFICES ASSUME IInv, Settled PROVE FirstAnchorWins
    BY DEF FirstAnchorWins
  <2>1. stack = <<>> /\ ~ dirty /\ Mapped
    BY DEF Settled, Mapped
  <2>2. Len(stack) = 0
    BY <2>1, EmptyIsList
  <2>3. Todo = {} /\ Current = {}
    BY <2>2 DEF Todo, Current
  <2>4. \A p \in anchors : SelfMade(p) => (p \in blocked <=> Contended(p))
    BY <2>1, <2>3 DEF IInv, FirstSoFar, NoneForgotten
  <2> QED BY <2>4 DEF FirstAnchorWins, SelfMade, Contended
<1> QED BY <1>1, SpillInvariant, PTL

-----------------------------------------------------------------------------
(***************************************************************************)
(* What a formula reads, directly or through others.                       *)
(***************************************************************************)
LEMMA FromZero ==
    ASSUME NEW T, 0 \in T, \A n \in Nat : n \in T => n + 1 \in T
    PROVE  \A n \in Nat : n \in T
<1> DEFINE less == OpToRel(<, Nat)
           missing == Nat \ T
<1> SUFFICES ASSUME missing # {} PROVE FALSE
  OBVIOUS
<1>1. PICK n \in missing : \A m \in missing : ~ (<<m, n>> \in less)
  <2>1. IsWellFoundedOn(less, Nat)
    BY NatLessThanWellFounded
  <2>2. missing \subseteq Nat
    OBVIOUS
  <2> HIDE DEF less, missing
  <2> QED BY <2>1, <2>2, WFMin, Zenon
<1>2. n - 1 \in missing
  <2>1. n \in Nat /\ n \notin T /\ n # 0
    BY <1>1
  <2>2. n - 1 \in Nat /\ (n - 1) + 1 = n
    BY <2>1
  <2>3. n - 1 \notin T
    BY <2>1, <2>2
  <2> QED BY <2>2, <2>3
<1>3. <<n - 1, n>> \in less
  BY <1>1, <1>2 DEF OpToRel
<1> QED BY <1>1, <1>2, <1>3

LEMMA CellsAreFinite == IsFiniteSet(Cells) /\ Cardinality(Cells) \in Nat
<1> DEFINE last == 10 * Height + Width
<1>1. last \in Int
  BY SpillAssumption
<1>2. Cells \subseteq 0 .. last
  BY SpillAssumption DEF Cells
<1>3. IsFiniteSet(0 .. last)
  BY <1>1, FS_Interval
<1> QED BY <1>2, <1>3, FS_Subset, FS_CardinalityType

\* The cells whose formulas are read, or spill, where known is known to be
\* read, and one more round.
Readers(known) ==
    (known \cap Cells) \cup {a \in Cells : IsArray(a) /\ Claims(a) \cap known # {}}

Wider(known) == known \cup UNION {ReadsOf(q) : q \in Readers(known)}

\* Reach takes as many rounds as there are cells.
LEMMA ReachRounds ==
    ASSUME NEW p
    PROVE  \E f : /\ f[0] = ReadsOf(p)
                  /\ \A i \in 1 .. Cardinality(Cells) : f[i] = Wider(f[i - 1])
                  /\ Reach(p) = f[Cardinality(Cells)]
<1> DEFINE Follows(g, k) == g = [n \in 0 .. k |->
                               IF n = 0 THEN ReadsOf(p)
                               ELSE LET known == g[n - 1]
                                        owners == {a \in Cells : IsArray(a) /\ Claims(a) \cap known # {}}
                                    IN  known \cup UNION {ReadsOf(q) : q \in (known \cap Cells) \cup owners}]
           Made(g, k) == g = [n \in 0 .. k |-> IF n = 0 THEN ReadsOf(p) ELSE Wider(g[n - 1])]
           T == {k \in Nat : \E g : Made(g, k)}
<1>1. 0 \in T
  <2>1. PICK g : g = [n \in 0 .. 0 |-> ReadsOf(p)]
    OBVIOUS
  <2>2. Made(g, 0)
    BY <2>1
  <2> QED BY <2>2
<1>2. ASSUME NEW k \in Nat, k \in T
      PROVE  k + 1 \in T
  <2>1. PICK g : Made(g, k)
    BY <1>2
  <2>2. PICK h : h = [n \in 0 .. k + 1 |-> IF n = 0 THEN ReadsOf(p) ELSE Wider(g[n - 1])]
    OBVIOUS
  <2>3. \A n \in 0 .. k : h[n] = g[n]
    BY <2>1, <2>2
  <2>4. \A n \in 0 .. k + 1 : n # 0 => g[n - 1] = h[n - 1]
    BY <2>3
  <2>5. Made(h, k + 1)
    BY <2>2, <2>4
  <2> QED BY <2>5
<1>3. Cardinality(Cells) \in T
  <2> HIDE DEF T
  <2> QED BY <1>1, <1>2, FromZero, CellsAreFinite
<1>4. PICK g : Made(g, Cardinality(Cells))
  BY <1>3 DEF T
<1>5. Follows(g, Cardinality(Cells))
  BY <1>4 DEF Wider, Readers
<1>6. \E f : Follows(f, Cardinality(Cells)) /\ Reach(p) = f[Cardinality(Cells)]
  <2> DEFINE chosen == CHOOSE h : Follows(h, Cardinality(Cells))
  <2>1. Reach(p) = chosen[Cardinality(Cells)]
    BY Zenon DEF Reach
  <2> HIDE DEF Follows
  <2>2. Follows(chosen, Cardinality(Cells))
    BY <1>5, Zenon
  <2> QED BY <2>1, <2>2, Zenon
<1>7. PICK f : Follows(f, Cardinality(Cells)) /\ Reach(p) = f[Cardinality(Cells)]
  BY <1>6
<1>8. Made(f, Cardinality(Cells))
  BY <1>7 DEF Wider, Readers
<1>9. Cardinality(Cells) \in Nat
  BY CellsAreFinite
<1> HIDE DEF Follows
<1>10. f[0] = ReadsOf(p) /\ \A i \in 1 .. Cardinality(Cells) : f[i] = Wider(f[i - 1])
  BY <1>8, <1>9
<1> QED BY <1>7, <1>10

LEMMA WiderGrows ==
    ASSUME NEW A, NEW B, A \subseteq B
    PROVE  A \subseteq Wider(A) /\ Readers(A) \subseteq Readers(B) /\ Wider(A) \subseteq Wider(B)
BY DEF Wider, Readers

\* Another round finds nothing more.
LEMMA ReachIsClosed ==
    ASSUME NEW p
    PROVE  Wider(Reach(p)) = Reach(p) /\ ReadsOf(p) \subseteq Reach(p)
<1> DEFINE N == Cardinality(Cells)
<1>1. N \in Nat /\ IsFiniteSet(Cells)
  BY CellsAreFinite
<1>2. PICK f : /\ f[0] = ReadsOf(p)
               /\ \A i \in 1 .. N : f[i] = Wider(f[i - 1])
               /\ Reach(p) = f[N]
  BY ReachRounds
<1> DEFINE Size(k) == Cardinality(Readers(f[k]))
           T == {k \in Nat : k <= N => /\ ReadsOf(p) \subseteq f[k]
                                       /\ Wider(f[k]) = f[k] \/ Size(k) > k}
<1>3. \A known : /\ Readers(known) \in SUBSET Cells
                 /\ IsFiniteSet(Readers(known))
                 /\ Cardinality(Readers(known)) \in Nat
                 /\ Cardinality(Readers(known)) <= N
  <2> TAKE known
  <2>1. Readers(known) \in SUBSET Cells
    BY DEF Readers
  <2> QED BY <1>1, <2>1, FS_Subset, FS_CardinalityType
<1> HIDE DEF N
<1>4. 0 \in T
  <2>1. CASE Readers(f[0]) = {}
    <3>1. Wider(f[0]) = f[0]
      BY <2>1 DEF Wider
    <3> QED BY <1>2, <3>1
  <2>2. CASE Readers(f[0]) # {}
    <3>1. Size(0) # 0
      BY <1>3, <2>2, FS_EmptySet
    <3>2. Size(0) > 0
      BY <1>3, <3>1
    <3> QED BY <1>2, <3>2
  <2> QED BY <2>1, <2>2
<1>5. ASSUME NEW k \in Nat, k \in T
      PROVE  k + 1 \in T
  <2> SUFFICES ASSUME k + 1 <= N
               PROVE  /\ ReadsOf(p) \subseteq f[k + 1]
                      /\ Wider(f[k + 1]) = f[k + 1] \/ Size(k + 1) > k + 1
    OBVIOUS
  <2>1. ReadsOf(p) \subseteq f[k] /\ (Wider(f[k]) = f[k] \/ Size(k) > k)
    BY <1>1, <1>5 DEF N
  <2>2. f[k + 1] = Wider(f[k])
    <3>1. k + 1 \in 1 .. N /\ (k + 1) - 1 = k
      BY <1>1 DEF N
    <3> QED BY <1>2, <3>1
  <2>3. f[k] \subseteq f[k + 1] /\ Readers(f[k]) \subseteq Readers(f[k + 1])
    <3>1. PICK A : A = f[k]
      OBVIOUS
    <3>2. A \subseteq Wider(A)
      BY WiderGrows
    <3>3. Readers(A) \subseteq Readers(Wider(A))
      BY <3>2, WiderGrows
    <3> QED BY <2>2, <3>1, <3>2, <3>3
  <2>4. CASE Wider(f[k]) = f[k]
    BY <2>1, <2>2, <2>4
  <2>5. CASE Size(k) > k /\ Readers(f[k + 1]) = Readers(f[k])
    <3>1. Wider(f[k + 1]) = f[k + 1]
      BY <2>2, <2>5 DEF Wider
    <3> QED BY <2>1, <2>3, <3>1
  <2>6. CASE Size(k) > k /\ Readers(f[k + 1]) # Readers(f[k])
    <3>1. Size(k) <= Size(k + 1) /\ Size(k) # Size(k + 1)
      BY <1>3, <2>3, <2>6, FS_Subset
    <3>2. Size(k) \in Nat /\ Size(k + 1) \in Nat
      BY <1>3
    <3> HIDE DEF Size
    <3>3. Size(k + 1) > k + 1
      BY <2>6, <3>1, <3>2
    <3> QED BY <2>1, <2>3, <3>3
  <2> QED BY <2>1, <2>4, <2>5, <2>6
<1>6. N \in T
  <2> HIDE DEF T
  <2> QED BY <1>1, <1>4, <1>5, FromZero DEF N
<1>7. /\ ReadsOf(p) \subseteq f[N]
      /\ Wider(f[N]) = f[N] \/ Size(N) > N
  BY <1>1, <1>6 DEF N
<1>8. ~ (Size(N) > N)
  BY <1>1, <1>3 DEF N
<1> QED BY <1>2, <1>7, <1>8

\* What is reached reaches no further.
LEMMA ReachThrough ==
    ASSUME NEW p, NEW q \in Reach(p), q \in Cells
    PROVE  Reach(q) \subseteq Reach(p)
<1> DEFINE N == Cardinality(Cells)
<1>1. N \in Nat
  BY CellsAreFinite
<1>2. PICK f : /\ f[0] = ReadsOf(q)
               /\ \A i \in 1 .. N : f[i] = Wider(f[i - 1])
               /\ Reach(q) = f[N]
  BY ReachRounds
<1> DEFINE T == {k \in Nat : k <= N => f[k] \subseteq Reach(p)}
<1> HIDE DEF N
<1>3. Wider(Reach(p)) = Reach(p)
  BY ReachIsClosed
<1>4. 0 \in T
  <2>1. ReadsOf(q) \subseteq Wider(Reach(p))
    BY DEF Wider, Readers
  <2> QED BY <1>2, <1>3, <2>1
<1>5. ASSUME NEW k \in Nat, k \in T
      PROVE  k + 1 \in T
  <2> SUFFICES ASSUME k + 1 <= N PROVE f[k + 1] \subseteq Reach(p)
    OBVIOUS
  <2>1. f[k] \subseteq Reach(p)
    BY <1>1, <1>5 DEF N
  <2>2. f[k + 1] = Wider(f[k])
    <3>1. k + 1 \in 1 .. N /\ (k + 1) - 1 = k
      BY <1>1 DEF N
    <3> QED BY <1>2, <3>1
  <2> QED BY <1>3, <2>1, <2>2, WiderGrows
<1>6. N \in T
  <2> HIDE DEF T
  <2> QED BY <1>1, <1>4, <1>5, FromZero DEF N
<1> QED BY <1>1, <1>2, <1>6 DEF N

LEMMA ReachRests ==
    ASSUME UNCHANGED content
    PROVE  \A p : Reach(p)' = Reach(p)
BY DEF Reach, ReadsOf, Claims, IsArray, Region, Place

-----------------------------------------------------------------------------
(***************************************************************************)
(* What is settled while the pass is under way.                            *)
(***************************************************************************)
\* The anchors that the pass has yet to get a result for, and the cells whose
\* get_value is computing.
Ahead  == Todo \cup Current
Valued == {stack[i].cell : i \in {j \in 1 .. Len(stack) : stack[j].call = "value"}}

Evaluates(f) == f.call \in {"value", "anchor"}

SourcesOf(p) == Sources(content[p])

\* No array to come lays claim to the cell, and to what the cell reads.
Ripe(q) == \A a \in Ahead : IsArray(a) => q \notin Claims(a)
Free(p) == \A q \in Reach(p) : Ripe(q)

\* What the cell shows will not be computed again.
Kept(q) == /\ q \notin Valued
           /\ q \in DOMAIN cache \/ (content[q] = Empty /\ q \notin DOMAIN owner)

AllKept(p, n) == \A k \in 1 .. n : Kept(SourcesOf(p)[k])

\* What a formula has read so far is what the cells show.
Fed(p, got) ==
    /\ Len(got) <= Len(SourcesOf(p))
    /\ p \notin Reach(p) =>
          /\ AllKept(p, Len(got))
          /\ \A k \in 1 .. Len(got) : got[k] = Shown(SourcesOf(p)[k])

\* A cached value agrees with the cells that it is made from, and they stay.
Justified(p) ==
    p \notin Reach(p) =>
        /\ p \notin Valued
        /\ content[p].kind = "sum" => AllKept(p, Len(SourcesOf(p)))
        /\ Agrees(p)

\* A step that leaves alone what is settled.
SameGrid(q) == /\ q \in DOMAIN grids' <=> q \in DOMAIN grids
               /\ q \in DOMAIN grids => grids'[q] = grids[q]

Calm == /\ UNCHANGED content
        /\ Ahead' \subseteq Ahead
        /\ \A q \in Cells : Ripe(q) /\ Kept(q) => Kept(q)' /\ Shown(q)' = Shown(q)
        /\ \A q \in Cells : (IsArray(q) => q \notin Ahead) => SameGrid(q)

LEMMA ReadsRest ==
    ASSUME UNCHANGED content
    PROVE  \A p : /\ Reach(p)' = Reach(p)
                  /\ IsArray(p)' <=> IsArray(p)
                  /\ Claims(p)' = Claims(p)
                  /\ SourcesOf(p)' = SourcesOf(p)
<1> TAKE p
<1>1. IsArray(p)' <=> IsArray(p)
  BY DEF IsArray
<1>2. Claims(p)' = Claims(p)
  BY DEF Claims, Region, Place
<1>3. SourcesOf(p)' = SourcesOf(p)
  BY DEF SourcesOf
<1> QED BY <1>1, <1>2, <1>3, ReachRests

LEMMA SourcesAre ==
    ASSUME SheetOK, NEW p \in Cells
    PROVE  /\ IsList(SourcesOf(p))
           /\ Len(SourcesOf(p)) \in Nat
           /\ \A k \in 1 .. Len(SourcesOf(p)) : SourcesOf(p)[k] \in Cells /\ SourcesOf(p)[k] \in Reach(p)
           /\ content[p].kind = "sumspill" => content[p].from[1] \in Cells /\ content[p].from[1] \in Reach(p)
           /\ content[p].kind # "sumspill" => SourcesOf(p) = content[p].from
<1> DEFINE c == content[p]
<1>1. c.from \in Seq(Cells) /\ (c.kind = "sumspill" => Len(c.from) = 1)
  BY SpillAssumption DEF SheetOK
<1>2. SourcesOf(p) \in Seq(Cells)
  <2>1. <<>> \in Seq(Cells)
    BY EmptySeq
  <2>2. SourcesOf(p) = <<>> \/ SourcesOf(p) = c.from
    BY DEF SourcesOf, Sources
  <2>3. c.from \in Seq(Cells)
    BY <1>1
  <2> QED BY <2>1, <2>2, <2>3, Zenon
<1>3. \A k \in 1 .. Len(c.from) : c.from[k] \in Cells /\ c.from[k] \in Reach(p)
  <2> TAKE k \in 1 .. Len(c.from)
  <2>1. c.from[k] \in Cells
    BY <1>1, ElementOfSeq
  <2>2. c.from[k] \in ToSet(c.from)
    BY <1>1 DEF ToSet
  <2>3. ToSet(c.from) \subseteq ReadsOf(p)
    BY DEF ReadsOf
  <2> QED BY <2>1, <2>2, <2>3, ReachIsClosed
<1>4. c.kind = "sumspill" => 1 \in 1 .. Len(c.from) /\ SourcesOf(p) = <<>>
  <2>1. c.kind = "sumspill" => 1 \in 1 .. Len(c.from)
    <3>1. c.kind = "sumspill" => Len(c.from) = 1
      BY <1>1
    <3>2. \A n : n = 1 => 1 \in 1 .. n
      OBVIOUS
    <3> QED BY <3>1, <3>2, Zenon
  <2>2. c.kind = "sumspill" => SourcesOf(p) = <<>>
    BY DEF SourcesOf, Sources
  <2> QED BY <2>1, <2>2
<1>5. c.kind # "sumspill" => SourcesOf(p) = c.from
  BY DEF SourcesOf, Sources
<1> HIDE DEF c
<1>6. \A k \in 1 .. Len(SourcesOf(p)) : SourcesOf(p)[k] \in Cells /\ SourcesOf(p)[k] \in Reach(p)
  <2>1. CASE c.kind = "sumspill"
    BY <1>4, <2>1, EmptyIsList
  <2>2. CASE c.kind # "sumspill"
    BY <1>3, <1>5, <2>2
  <2> QED BY <2>1, <2>2
<1> QED BY <1>2, <1>3, <1>4, <1>5, <1>6, SeqIsList DEF c

LEMMA RipeStays ==
    ASSUME UNCHANGED content, Ahead' \subseteq Ahead
    PROVE  \A p : /\ Ripe(p) => Ripe(p)'
                  /\ Free(p) => Free(p)'
<1>1. \A p : Ripe(p) => Ripe(p)'
  BY ReadsRest DEF Ripe
<1>2. \A p : Free(p) => Free(p)'
  BY <1>1, ReadsRest DEF Free
<1> QED BY <1>1, <1>2

\* The sources of a cell that is free.
LEMMA SourcesStay ==
    ASSUME SheetOK, Calm, NEW p \in Cells, Free(p), NEW n \in Nat, n <= Len(SourcesOf(p)), AllKept(p, n)
    PROVE  /\ AllKept(p, n)'
           /\ \A k \in 1 .. n : Shown(SourcesOf(p)[k])' = Shown(SourcesOf(p)[k])
<1>1. SourcesOf(p)' = SourcesOf(p)
  BY ReadsRest DEF Calm
<1>2. Len(SourcesOf(p)) \in Nat
  BY SourcesAre
<1>3. ASSUME NEW k \in 1 .. n
      PROVE  Kept(SourcesOf(p)[k])' /\ Shown(SourcesOf(p)[k])' = Shown(SourcesOf(p)[k])
  <2>1. k \in 1 .. Len(SourcesOf(p))
    BY <1>2
  <2>2. PICK s : s = SourcesOf(p)[k]
    OBVIOUS
  <2>3. s \in Cells /\ s \in Reach(p)
    BY <2>1, <2>2, SourcesAre
  <2>4. Ripe(s) /\ Kept(s)
    BY <2>2, <2>3 DEF Free, AllKept
  <2>5. Kept(s)' /\ Shown(s)' = Shown(s)
    BY <2>3, <2>4 DEF Calm
  <2>6. SourcesOf(p)'[k] = s
    BY <1>1, <2>2
  <2> QED BY <2>2, <2>5, <2>6
<1>4. AllKept(p, n)'
  BY <1>3 DEF AllKept
<1> QED BY <1>3, <1>4

LEMMA FedStays ==
    ASSUME SheetOK, Calm, NEW p \in Cells, Free(p), NEW got, IsList(got), Fed(p, got)
    PROVE  Fed(p, got)'
<1>1. SourcesOf(p)' = SourcesOf(p) /\ Reach(p)' = Reach(p)
  BY ReadsRest DEF Calm
<1>2. Len(got) \in Nat /\ Len(got) <= Len(SourcesOf(p))
  BY DEF IsList, Fed
<1>3. ASSUME p \notin Reach(p)
      PROVE  /\ AllKept(p, Len(got))'
             /\ \A k \in 1 .. Len(got) : got[k] = Shown(SourcesOf(p)[k])'
  <2>1. AllKept(p, Len(got)) /\ \A k \in 1 .. Len(got) : got[k] = Shown(SourcesOf(p)[k])
    BY <1>3 DEF Fed
  <2>2. PICK n \in Nat : n = Len(got)
    BY <1>2
  <2>3. AllKept(p, n)' /\ \A k \in 1 .. n : Shown(SourcesOf(p)[k])' = Shown(SourcesOf(p)[k])
    BY <1>2, <2>1, <2>2, SourcesStay
  <2> QED BY <2>1, <2>2, <2>3
<1> QED BY <1>1, <1>2, <1>3 DEF Fed

-----------------------------------------------------------------------------
(***************************************************************************)
(* What scalar formulas show.                                              *)
(***************************************************************************)
SpillSum(q) == IF q \in DOMAIN grids THEN Summed(grids[q]) ELSE RefEr

ShownBy(p) == [i \in DOMAIN SourcesOf(p) |-> Shown(SourcesOf(p)[i])]

LEMMA ScalarShows == \A v : First(Scalar(v).values) = v /\ Scalar(v).list = FALSE
<1> TAKE v
<1>1. Scalar(v).values = <<v>> /\ Scalar(v).list = FALSE
  BY DEF Scalar
<1>2. Len(<<v>>) = 1 /\ <<v>>[1] = v /\ <<v>> # <<>>
  OBVIOUS
<1> QED BY <1>1, <1>2 DEF First

LEMMA ScalarResult ==
    ASSUME NEW c, NEW got
    PROVE  /\ c.kind = "sum" => Result(c, got) = Scalar(Summed(got))
           /\ c.kind = "sumspill" => Result(c, got) = Scalar(SpillSum(c.from[1]))
           /\ c.kind = "filter" => Result(c, got) = List(Filtered(got))
BY DEF Result, SpillSum

LEMMA ValueIs ==
    ASSUME NEW p
    PROVE  /\ content[p].kind = "sum" => ValueOf(p) = Summed(ShownBy(p))
           /\ content[p].kind = "sumspill" => ValueOf(p) = SpillSum(content[p].from[1])
<1>1. ValueOf(p) = First(Result(content[p], ShownBy(p)).values)
  BY DEF ValueOf, ShownBy, SourcesOf
<1> QED BY <1>1, ScalarResult, ScalarShows

LEMMA ValueIsAfter ==
    ASSUME NEW p
    PROVE  /\ content'[p].kind = "sum" => ValueOf(p)' = Summed(ShownBy(p)')
           /\ content'[p].kind = "sumspill" => ValueOf(p)' = SpillSum(content[p].from[1])'
<1>1. ValueOf(p)' = First(Result(content[p], ShownBy(p))'.values)
  BY DEF ValueOf, ShownBy, SourcesOf
<1>2. content'[p].kind = "sum" => Result(content[p], ShownBy(p))' = Scalar(Summed(ShownBy(p)'))
  <2> HAVE content'[p].kind = "sum"
  <2> QED BY DEF Result
<1>3. content'[p].kind = "sumspill" => Result(content[p], ShownBy(p))' = Scalar(SpillSum(content[p].from[1])')
  BY DEF Result, SpillSum
<1>4. PICK r : r = Result(content[p], ShownBy(p))' /\ ValueOf(p)' = First(r.values)
  BY <1>1
<1>5. content'[p].kind = "sum" => ValueOf(p)' = Summed(ShownBy(p)')
  BY <1>2, <1>4, ScalarShows
<1>6. content'[p].kind = "sumspill" => ValueOf(p)' = SpillSum(content[p].from[1])'
  BY <1>3, <1>4, ScalarShows
<1> QED BY <1>5, <1>6

\* The cell of a spill that a sum adds up.
LEMMA SpillSumStays ==
    ASSUME SheetOK, Calm, NEW p \in Cells, Free(p), content[p].kind = "sumspill"
    PROVE  SpillSum(content[p].from[1])' = SpillSum(content[p].from[1])
<1>1. PICK q : q = content[p].from[1]
  OBVIOUS
<1>2. q \in Cells /\ Ripe(q)
  BY <1>1, SourcesAre DEF Free
<1>3. q \in Claims(q)
  BY DEF Claims
<1>4. IsArray(q) => q \notin Ahead
  BY <1>2, <1>3 DEF Ripe
<1>5. SameGrid(q) /\ content' = content
  BY <1>2, <1>4 DEF Calm
<1>6. SpillSum(q)' = SpillSum(q)
  BY <1>5 DEF SpillSum, SameGrid
<1>7. content'[p].from[1] = q
  BY <1>1, <1>5
<1> QED BY <1>1, <1>6, <1>7

LEMMA ShownByStays ==
    ASSUME SheetOK, Calm, NEW p \in Cells, Free(p), AllKept(p, Len(SourcesOf(p)))
    PROVE  ShownBy(p)' = ShownBy(p)
<1>1. PICK n \in Nat : n = Len(SourcesOf(p)) /\ DOMAIN SourcesOf(p) = 1 .. n
  BY SourcesAre DEF IsList
<1>2. \A k \in 1 .. n : Shown(SourcesOf(p)[k])' = Shown(SourcesOf(p)[k])
  BY <1>1, SourcesStay
<1>3. SourcesOf(p)' = SourcesOf(p)
  BY ReadsRest DEF Calm
<1>4. ShownBy(p) = [i \in 1 .. n |-> Shown(SourcesOf(p)[i])]
  BY <1>1 DEF ShownBy
<1>5. ShownBy(p)' = [i \in 1 .. n |-> Shown(SourcesOf(p)[i])']
  BY <1>1, <1>3 DEF ShownBy
<1> QED BY <1>2, <1>4, <1>5

LEMMA JustifiedStays ==
    ASSUME SheetOK, Calm, NEW p \in Cells, Free(p), cache'[p] = cache[p],
           p \notin Reach(p) => p \notin Valued', Justified(p)
    PROVE  Justified(p)'
<1>1. SourcesOf(p)' = SourcesOf(p) /\ Reach(p)' = Reach(p) /\ content' = content
  BY ReadsRest DEF Calm
<1> SUFFICES ASSUME p \notin Reach(p)
             PROVE  /\ content[p].kind = "sum" => AllKept(p, Len(SourcesOf(p)))'
                    /\ Agrees(p)'
  BY <1>1 DEF Justified
<1>2. (content[p].kind = "sum" => AllKept(p, Len(SourcesOf(p)))) /\ Agrees(p)
  BY DEF Justified
<1>3. CASE content[p].kind = "sum"
  <2>1. PICK n \in Nat : n = Len(SourcesOf(p))
    BY SourcesAre
  <2>2. AllKept(p, n)'
    BY <1>2, <1>3, <2>1, SourcesStay
  <2>3. ValueOf(p)' = ValueOf(p)
    BY <1>1, <1>2, <1>3, ShownByStays, ValueIs, ValueIsAfter
  <2>4. Agrees(p)'
    BY <1>1, <1>2, <1>3, <2>3 DEF Agrees
  <2> QED BY <1>1, <2>1, <2>2, <2>4
<1>4. CASE content[p].kind = "sumspill"
  <2>1. ValueOf(p)' = ValueOf(p)
    <3>1. ValueOf(p) = SpillSum(content[p].from[1])
      BY <1>4, ValueIs
    <3>2. ValueOf(p)' = SpillSum(content[p].from[1])'
      BY <1>1, <1>4, ValueIsAfter
    <3> QED BY <1>4, <3>1, <3>2, SpillSumStays
  <2>2. Agrees(p)'
    BY <1>1, <1>2, <1>4, <2>1 DEF Agrees
  <2> QED BY <1>4, <2>2
<1>5. CASE content[p].kind \notin {"sum", "sumspill"}
  BY <1>1, <1>5 DEF Agrees
<1> QED BY <1>3, <1>4, <1>5

-----------------------------------------------------------------------------
(***************************************************************************)
(* The inductive invariant of sheets whose arrays read only arrays above   *)
(* them.                                                                   *)
(***************************************************************************)
\* A formula waits for the next of its sources.
Waits(f, g) ==
    /\ g.call \in {"ask", "value"}
    /\ Len(f.got) < Len(SourcesOf(f.cell))
    /\ g.cell = SourcesOf(f.cell)[Len(f.got) + 1]

\* A pass is begun only by the outermost read.
Calls ==
    /\ Len(stack) > 0 => stack[1].call \in {"ask", "value"}
    /\ \A i \in 1 .. Len(stack) - 1 :
          /\ stack[i].call = "ask" => i = 1 /\ stack[2].call = "pass"
          /\ Evaluates(stack[i]) => Waits(stack[i], stack[i + 1])

Through ==
    \A i, j \in 1 .. Len(stack) :
        i < j /\ Evaluates(stack[i]) => stack[j].cell \in Reach(stack[i].cell)

Ready(f) ==
    /\ Evaluates(f) => Free(f.cell) /\ Fed(f.cell, f.got)
    /\ f.call = "value" => Ripe(f.cell) /\ f.cell \notin Done

Reading ==
    /\ \A i \in 1 .. Len(stack) : Ready(stack[i])
    /\ Len(stack) > 0 /\ stack[Len(stack)].call = "ask" =>
          Ripe(stack[Len(stack)].cell) /\ Free(stack[Len(stack)].cell)

Caching == \A p \in DOMAIN cache : p \in Cells /\ Ripe(p) /\ Free(p) /\ Justified(p)

Found ==
    /\ \A a \in Done : IsArray(a)
    /\ \A a \in DOMAIN grids : Region(a, content[a], Len(grids[a])) \subseteq Claims(a)
    /\ Ahead \subseteq anchors

Tried == \A a \in Cells : IsArray(a) => a \in Done \cup Ahead

Ordered == Calls /\ Through /\ Reading /\ Caching /\ Found /\ Tried

\* Every array that can be told from its formula is an anchor.
Listed == \A p \in Cells : IsCandidate(content[p]) => p \in anchors

\* Before the pass nothing has been read.
Unread == Orderly /\ dirty => /\ cache = <<>>
                              /\ Len(stack) <= 1
                              /\ \A i \in 1 .. Len(stack) :
                                     stack[i].call = "ask" /\ ~ stack[i].synced

OInv == Listed /\ Unread /\ (Orderly /\ ~ dirty => Ordered)

-----------------------------------------------------------------------------
\* An array that reads only arrays above it does not read itself.
LEMMA ArrayReadsOthers ==
    ASSUME Orderly, Listed, NEW a \in Cells, IsArray(a)
    PROVE  a \in anchors /\ a \notin Reach(a)
<1>1. content[a].kind # "hidden"
  BY DEF Orderly
<1>2. a \in anchors
  BY <1>1 DEF Listed, IsCandidate, IsArray
<1>3. a \in Claims(a)
  BY DEF Claims
<1>4. a \in Reach(a) => a < a
  BY <1>2, <1>3 DEF Orderly
<1>5. a \in Int
  BY CellsAreInts
<1>6. ~ (a < a)
  BY <1>5
<1> QED BY <1>2, <1>4, <1>6

LEMMA OrderlyBefore ==
    ASSUME UNCHANGED content, anchors \subseteq anchors', Orderly'
    PROVE  Orderly
<1>1. \A p \in Cells : content[p].kind # "hidden"
  BY DEF Orderly
<1>2. \A p \in anchors : \A a \in Cells : IsArray(a) /\ Claims(a) \cap Reach(p) # {} => a < p
  BY ReadsRest DEF Orderly
<1> QED BY <1>1, <1>2 DEF Orderly

\* What a formula reads is computed by none of its callers, unless it depends
\* on itself.
LEMMA NotBelow ==
    ASSUME StackOK, Through, NEW i \in 1 .. Len(stack), Evaluates(stack[i]),
           NEW y, y = stack[i].cell, y \notin Reach(y), NEW s \in Reach(y), s \in Cells,
           NEW j \in 1 .. i, Evaluates(stack[j])
    PROVE  stack[j].cell # s
<1> SUFFICES ASSUME stack[j].cell = s PROVE FALSE
  OBVIOUS
<1>1. Len(stack) \in Nat
  BY DEF StackOK, FramesOK, IsList
<1>2. CASE j = i
  BY <1>2
<1>3. CASE j # i
  <2>1. j < i /\ j \in 1 .. Len(stack)
    BY <1>1, <1>3
  <2>2. y \in Reach(s)
    BY <2>1 DEF Through
  <2> QED BY <2>2, ReachThrough
<1> QED BY <1>2, <1>3

LEMMA ReadyStays ==
    ASSUME SheetOK, Calm, Found', Done' \subseteq Done \cup Ahead,
           NEW f, IsFrame(f), Proper(f, content), Ready(f)
    PROVE  Ready(f)'
<1>1. ASSUME Evaluates(f) PROVE Free(f.cell)' /\ Fed(f.cell, f.got)'
  <2>1. PICK p, got : p = f.cell /\ got = f.got
    OBVIOUS
  <2>2. p \in Cells /\ IsList(got) /\ Free(p) /\ Fed(p, got)
    BY <1>1, <2>1 DEF Evaluates, Proper, IsFrame, Ready
  <2>3. Free(p)' /\ Fed(p, got)'
    BY <2>2, FedStays, RipeStays DEF Calm
  <2> QED BY <2>1, <2>3
<1>2. ASSUME f.call = "value" PROVE Ripe(f.cell)' /\ f.cell \notin Done'
  <2>1. PICK p : p = f.cell
    OBVIOUS
  <2>2. Ripe(p) /\ p \notin Done
    BY <1>2, <2>1 DEF Ready
  <2>3. Ripe(p)'
    BY <2>2, RipeStays DEF Calm
  <2>4. p \in Claims(p)
    BY DEF Claims
  <2>5. p \in Done' => IsArray(p)
    BY ReadsRest DEF Found, Calm
  <2>6. p \notin Done'
    BY <2>2, <2>4, <2>5 DEF Ripe
  <2> QED BY <2>1, <2>3, <2>6
<1> QED BY <1>1, <1>2 DEF Ready, Evaluates

-----------------------------------------------------------------------------
(***************************************************************************)
(* The innermost call returns.                                             *)
(***************************************************************************)
WithGot(f, w) == [call |-> f.call, cell |-> f.cell, got |-> w, todo |-> f.todo, synced |-> f.synced]

PoppedTo(w) ==
    /\ IsList(stack')
    /\ Len(stack') = Len(stack) - 1
    /\ \A i \in 1 .. Len(stack) - 2 : stack'[i] = stack[i]
    /\ Len(stack) > 1 => stack'[Len(stack) - 1] = WithGot(stack[Len(stack) - 1], w)

LEMMA RestGives ==
    ASSUME FramesOK, stack # <<>>, stack' = Rest
    PROVE  PoppedTo(stack[Len(stack) - 1].got)
<1>1. Len(stack) \in Nat \ {0} /\ IsList(stack)
  BY TopIs DEF FramesOK
<1>2. IsList(Rest) /\ Len(Rest) = Len(stack) - 1 /\ \A i \in 1 .. Len(stack) - 1 : Rest[i] = stack[i]
  BY <1>1, Dropped DEF Rest
<1>3. ASSUME Len(stack) > 1
      PROVE  stack'[Len(stack) - 1] = WithGot(stack[Len(stack) - 1], stack[Len(stack) - 1].got)
  <2>1. Len(stack) - 1 \in 1 .. Len(stack) /\ Len(stack) - 1 \in 1 .. Len(stack) - 1
    BY <1>1, <1>3
  <2>2. stack'[Len(stack) - 1] = stack[Len(stack) - 1] /\ IsFrame(stack[Len(stack) - 1])
    BY <1>2, <2>1 DEF FramesOK
  <2> QED BY <2>2 DEF WithGot, IsFrame
<1>4. \A i \in 1 .. Len(stack) - 2 : i \in 1 .. Len(stack) - 1
  BY <1>1
<1> QED BY <1>2, <1>3, <1>4 DEF PoppedTo

LEMMA ReturnGives ==
    ASSUME FramesOK, stack # <<>>, NEW v, Return(v)
    PROVE  PoppedTo(Append(stack[Len(stack) - 1].got, v))
<1>1. Len(stack) \in Nat \ {0} /\ IsList(stack)
  BY TopIs DEF FramesOK
<1>2. /\ IsList(Rest) /\ Len(Rest) = Len(stack) - 1
      /\ \A i \in 1 .. Len(stack) - 1 : Rest[i] = stack[i]
      /\ Rest = <<>> <=> Len(stack) = 1
  BY <1>1, Dropped DEF Rest
<1>3. CASE Rest = <<>>
  <2>1. stack' = <<>> /\ Len(stack) = 1
    BY <1>2, <1>3 DEF Return
  <2>2. IsList(stack') /\ Len(stack') = 0
    BY <2>1, EmptyIsList
  <2> QED BY <2>1, <2>2 DEF PoppedTo
<1>4. CASE Rest # <<>>
  <2> DEFINE m == Len(Rest)
             f == Rest[m]
             g == [f EXCEPT !.got = Append(f.got, v)]
  <2>1. m \in Nat \ {0} /\ m = Len(stack) - 1 /\ m \in 1 .. m
    BY <1>1, <1>2, <1>4
  <2>2. IsFrame(f) /\ f = stack[m]
    BY <1>1, <1>2, <2>1 DEF FramesOK
  <2>3. stack' = [Rest EXCEPT ![m].got = Append(@, v)]
    BY <1>4 DEF Return
  <2>4. stack' = [Rest EXCEPT ![m] = g]
    BY <2>3
  <2>5. g = WithGot(f, Append(f.got, v))
    BY <2>2, GotChanged DEF IsFrame, WithGot
  <2> HIDE DEF g, f, m
  <2>6. stack' = Replaced(Rest, m, g) /\ m = Len(Rest)
    BY <2>4 DEF Replaced, m
  <2>7. IsList(stack') /\ Len(stack') = m /\ \A i \in 1 .. m : stack'[i] = IF i = m THEN g ELSE Rest[i]
    BY <1>2, <2>1, <2>6, ExceptList, SMTT(30)
  <2>8. \A i \in 1 .. Len(stack) - 2 : stack'[i] = stack[i]
    <3>1. \A i \in 1 .. Len(stack) - 2 : i \in 1 .. m /\ i # m
      BY <1>1, <2>1
    <3> QED BY <1>2, <2>1, <2>7, <3>1
  <2>9. stack'[m] = WithGot(stack[m], Append(stack[m].got, v))
    BY <2>1, <2>2, <2>5, <2>7
  <2> QED BY <2>1, <2>7, <2>8, <2>9 DEF PoppedTo
<1> QED BY <1>3, <1>4

LEMMA WithGotIs ==
    ASSUME NEW f, NEW w
    PROVE  /\ WithGot(f, w).call = f.call /\ WithGot(f, w).cell = f.cell
           /\ WithGot(f, w).got = w /\ WithGot(f, w).todo = f.todo
BY DEF WithGot

\* The calls that are left.
LEMMA LeftAre ==
    ASSUME StackOK, stack # <<>>, NEW w, PoppedTo(w)
    PROVE  /\ Len(stack) \in Nat \ {0} /\ Len(stack') = Len(stack) - 1
           /\ Top = stack[Len(stack)]
           /\ \A i \in 1 .. Len(stack) - 1 :
                 /\ i \in 1 .. Len(stack)
                 /\ stack'[i].call = stack[i].call
                 /\ stack'[i].cell = stack[i].cell
                 /\ i < Len(stack) - 1 => stack'[i] = stack[i]
           /\ Len(stack) > 1 => stack'[Len(stack) - 1].got = w
<1>1. Len(stack) \in Nat \ {0} /\ Top = stack[Len(stack)]
  BY TopIs DEF StackOK
<1>2. \A i \in 1 .. Len(stack) - 1 :
         /\ i \in 1 .. Len(stack)
         /\ i \in 1 .. Len(stack) - 2 \/ (i = Len(stack) - 1 /\ Len(stack) > 1)
  BY <1>1
<1>3. Len(stack) > 1 => stack'[Len(stack) - 1] = WithGot(stack[Len(stack) - 1], w)
  BY DEF PoppedTo
<1>4. ASSUME NEW i \in 1 .. Len(stack) - 1
      PROVE  /\ i \in 1 .. Len(stack)
             /\ stack'[i].call = stack[i].call
             /\ stack'[i].cell = stack[i].cell
             /\ i < Len(stack) - 1 => stack'[i] = stack[i]
  <2>1. CASE i \in 1 .. Len(stack) - 2
    BY <1>1, <2>1 DEF PoppedTo
  <2>2. CASE i = Len(stack) - 1 /\ Len(stack) > 1
    <3>1. stack'[i].call = stack[i].call /\ stack'[i].cell = stack[i].cell
      BY <1>3, <2>2, WithGotIs
    <3> QED BY <1>1, <2>2, <3>1
  <2> QED BY <1>2, <2>1, <2>2
<1>5. Len(stack) > 1 => stack'[Len(stack) - 1].got = w
  BY <1>3, WithGotIs
<1> QED BY <1>1, <1>4, <1>5 DEF PoppedTo

LEMMA CallsPopped ==
    ASSUME StackOK, stack # <<>>, NEW w, PoppedTo(w), UNCHANGED content, Calls, Through
    PROVE  Calls' /\ Through'
<1> DEFINE n == Len(stack)
<1>1. /\ n \in Nat \ {0} /\ Len(stack') = n - 1
      /\ \A i \in 1 .. n - 1 : /\ i \in 1 .. n
                               /\ stack'[i].call = stack[i].call
                               /\ stack'[i].cell = stack[i].cell
                               /\ i < n - 1 => stack'[i] = stack[i]
  BY LeftAre
<1>2. \A i \in 1 .. n - 2 : /\ i \in 1 .. n - 1 /\ i < n - 1
                            /\ i + 1 \in 1 .. n - 1 /\ i + 1 # i
  BY <1>1
<1>3. Through'
  BY <1>1, ReadsRest DEF Through, Evaluates
<1>4. Len(stack') > 0 => stack'[1].call \in {"ask", "value"}
  <2>1. n - 1 > 0 => 1 \in 1 .. n - 1 /\ n > 0
    BY <1>1
  <2> QED BY <1>1, <2>1 DEF Calls
<1>5. ASSUME NEW i \in 1 .. n - 2
      PROVE  /\ stack'[i].call = "ask" => i = 1 /\ stack'[2].call = "pass"
             /\ Evaluates(stack[i])' => Waits(stack[i], stack[i + 1])'
  <2>1. /\ stack'[i] = stack[i] /\ i \in 1 .. n - 1
        /\ stack'[i + 1].call = stack[i + 1].call
        /\ stack'[i + 1].cell = stack[i + 1].cell
    BY <1>1, <1>2, <1>5
  <2>2. /\ stack[i].call = "ask" => i = 1 /\ stack[2].call = "pass"
        /\ Evaluates(stack[i]) => Waits(stack[i], stack[i + 1])
    BY <2>1 DEF Calls
  <2>3. stack'[i].call = "ask" => i = 1 /\ stack'[2].call = "pass"
    BY <2>1, <2>2
  <2>4. SourcesOf(stack[i].cell)' = SourcesOf(stack[i].cell)
    BY <2>1, ReadsRest
  <2>5. Evaluates(stack[i])' => Waits(stack[i], stack[i + 1])'
    BY <2>1, <2>2, <2>4 DEF Evaluates, Waits
  <2> QED BY <2>3, <2>5
<1>6. Len(stack') - 1 = n - 2
  BY <1>1
<1> QED BY <1>3, <1>4, <1>5, <1>6 DEF Calls

LEMMA ValuedMembers ==
    /\ \A p : p \in Valued <=> \E i \in 1 .. Len(stack) : stack[i].call = "value" /\ p = stack[i].cell
    /\ \A p : p \in Valued' <=> \E i \in 1 .. Len(stack') : stack'[i].call = "value" /\ p = stack'[i].cell
BY DEF Valued

LEMMA ValuedPopped ==
    ASSUME StackOK, stack # <<>>, NEW w, PoppedTo(w)
    PROVE  /\ Valued' \subseteq Valued
           /\ Top.call # "value" => Valued' = Valued
           /\ \A p \in Valued : p \in Valued' \/ p = Top.cell
           /\ \A p \in Valued' : \E i \in 1 .. Len(stack) - 1 : stack[i].call = "value" /\ p = stack[i].cell
<1> DEFINE n == Len(stack)
<1>1. /\ n \in Nat \ {0} /\ Len(stack') = n - 1 /\ Top = stack[n]
      /\ \A i \in 1 .. n - 1 : /\ i \in 1 .. n
                               /\ stack'[i].call = stack[i].call
                               /\ stack'[i].cell = stack[i].cell
  BY LeftAre
<1> HIDE DEF n
<1>2. \A i \in 1 .. n : i \in 1 .. n - 1 \/ i = n
  BY <1>1
<1>3. \A p : p \in Valued <=> \E i \in 1 .. n : stack[i].call = "value" /\ p = stack[i].cell
  BY ValuedMembers DEF n
<1>4. \A p : p \in Valued' <=> \E i \in 1 .. n - 1 : stack[i].call = "value" /\ p = stack[i].cell
  BY <1>1, ValuedMembers
<1>5. \A p \in Valued : p \in Valued' \/ (p = Top.cell /\ Top.call = "value")
  BY <1>1, <1>2, <1>3, <1>4
<1>6. Valued' \subseteq Valued
  BY <1>1, <1>3, <1>4
<1> QED BY <1>4, <1>5, <1>6 DEF n

\* The call that an answer goes to.
LEMMA CallerWaits ==
    ASSUME StackOK, Calls, Len(stack) > 1, stack[Len(stack)].call \in {"ask", "value"}
    PROVE  LET f == stack[Len(stack) - 1]
           IN  Evaluates(f) /\ Waits(f, stack[Len(stack)])
<1> DEFINE n == Len(stack)
           m == n - 1
<1>1. n \in Nat /\ m \in 1 .. n - 1 /\ m \in 1 .. n /\ m < n /\ m + 1 = n
  BY DEF StackOK, FramesOK, IsList
<1>2. /\ stack[m].call = "ask" => m = 1 /\ stack[2].call = "pass"
      /\ Evaluates(stack[m]) => Waits(stack[m], stack[m + 1])
  BY <1>1 DEF Calls
<1>3. stack[m].call = "pass" => stack[m + 1].call = "anchor"
  BY <1>1 DEF StackOK, Nested
<1>4. stack[m].call \in {"ask", "value", "pass", "anchor"}
  BY <1>1 DEF StackOK, FramesOK, IsFrame
<1> HIDE DEF n
<1>5. stack[m].call # "ask"
  <2> SUFFICES ASSUME stack[m].call = "ask" PROVE FALSE
    OBVIOUS
  <2>1. m = 1 /\ stack[2].call = "pass" /\ n = 2
    BY <1>1, <1>2
  <2> QED BY <2>1 DEF n
<1>6. stack[m].call # "pass"
  BY <1>1, <1>3 DEF n
<1>7. Evaluates(stack[m])
  BY <1>4, <1>5, <1>6 DEF Evaluates
<1> QED BY <1>1, <1>2, <1>7 DEF n

\* One more value, and the cell that gave it shows it.
LEMMA FedMore ==
    ASSUME SheetOK, UNCHANGED content, NEW y \in Cells, NEW got, IsList(got), Fed(y, got)',
           Len(got) < Len(SourcesOf(y)),
           NEW s, s = SourcesOf(y)[Len(got) + 1], NEW v,
           y \notin Reach(y) => Kept(s)' /\ v = Shown(s)'
    PROVE  Fed(y, Append(got, v))'
<1> DEFINE new == Append(got, v)
<1>1. PICK n \in Nat : n = Len(got)
  BY DEF IsList
<1>2. Len(new) = n + 1 /\ (\A i \in 1 .. n : new[i] = got[i]) /\ new[n + 1] = v
  BY <1>1, Appended
<1>3. SourcesOf(y)' = SourcesOf(y) /\ Reach(y)' = Reach(y)
  BY ReadsRest
<1>4. Len(SourcesOf(y)) \in Nat
  BY SourcesAre
<1>5. \A k \in 1 .. n + 1 : k \in 1 .. n \/ k = n + 1
  BY <1>1
<1> HIDE DEF new
<1>6. Len(new) <= Len(SourcesOf(y)')
  BY <1>1, <1>2, <1>3, <1>4
<1>7. ASSUME y \notin Reach(y)
      PROVE  /\ AllKept(y, Len(new))'
             /\ \A k \in 1 .. Len(new) : new[k] = Shown(SourcesOf(y)[k])'
  <2>1. /\ \A k \in 1 .. n : Kept(SourcesOf(y)[k])'
        /\ \A k \in 1 .. n : got[k] = Shown(SourcesOf(y)[k])'
    BY <1>1, <1>3, <1>7 DEF Fed, AllKept
  <2>2. SourcesOf(y)'[n + 1] = s /\ Kept(s)' /\ v = Shown(s)'
    BY <1>1, <1>3, <1>7
  <2>3. \A k \in 1 .. n + 1 : Kept(SourcesOf(y)[k])' /\ new[k] = Shown(SourcesOf(y)[k])'
    BY <1>2, <1>5, <2>1, <2>2
  <2> QED BY <1>2, <2>3 DEF AllKept
<1> QED BY <1>2, <1>3, <1>6, <1>7 DEF Fed, new

LEMMA ReadingPopped ==
    ASSUME SheetOK, StackOK, stack # <<>>, NEW w, PoppedTo(w), Calm, Reading, Found',
           Done' \subseteq Done \cup Ahead,
           \A y : Len(stack) > 1 /\ Evaluates(stack[Len(stack) - 1]) /\ y = stack[Len(stack) - 1].cell
                   => Fed(y, w)',
           Len(stack) > 1 /\ stack[Len(stack) - 1].call = "ask" => Ahead' = {}
    PROVE  Reading'
<1> DEFINE n == Len(stack)
           m == n - 1
<1>1. /\ n \in Nat \ {0} /\ Len(stack') = m
      /\ \A i \in 1 .. m : /\ i \in 1 .. n
                           /\ stack'[i].call = stack[i].call
                           /\ stack'[i].cell = stack[i].cell
                           /\ i < m => stack'[i] = stack[i]
      /\ n > 1 => stack'[m].got = w
  BY LeftAre
<1>2. ASSUME NEW i \in 1 .. m
      PROVE  Ready(stack[i])'
  <2>1. i \in 1 .. n /\ IsFrame(stack[i]) /\ Proper(stack[i], content) /\ Ready(stack[i])
    BY <1>1 DEF StackOK, FramesOK, Reading
  <2>2. PICK f : f = stack[i]
    OBVIOUS
  <2>3. Ready(f)'
    BY <2>1, <2>2, ReadyStays
  <2>4. CASE i < m
    BY <1>1, <2>2, <2>3, <2>4
  <2>5. CASE i = m
    <3>1. n > 1
      BY <1>1, <2>5
    <3>2. PICK g : g = stack'[i]
      OBVIOUS
    <3>3. g.call = f.call /\ g.cell = f.cell /\ g.got = w
      BY <1>1, <2>2, <2>5, <3>1, <3>2
    <3>4. Evaluates(f) => Fed(f.cell, w)'
      <4>1. PICK y : y = f.cell
        OBVIOUS
      <4>2. Evaluates(f) => Fed(y, w)'
        BY <2>2, <2>5, <3>1, <4>1
      <4> QED BY <4>1, <4>2
    <3>5. Ready(g)'
      BY <2>3, <3>3, <3>4 DEF Ready, Evaluates
    <3> QED BY <3>2, <3>5
  <2>6. i < m \/ i = m
    BY <1>1
  <2> QED BY <2>4, <2>5, <2>6
<1>3. ASSUME Len(stack') > 0, stack'[Len(stack')].call = "ask", NEW p
      PROVE  Ripe(p)' /\ Free(p)'
  <2>1. n > 1 /\ m \in 1 .. m /\ stack[m].call = "ask"
    BY <1>1, <1>3
  <2>2. Ahead' = {}
    BY <2>1
  <2>3. \A q : Ripe(q)'
    BY <2>2 DEF Ripe
  <2> QED BY <2>3 DEF Free
<1> QED BY <1>1, <1>2, <1>3 DEF Reading

\* The caller of a read has read what the cell shows.
LEMMA CallerFed ==
    ASSUME SheetOK, StackOK, stack # <<>>, Calls, Through, Reading, Calm,
           Top.call \in {"ask", "value"}, NEW s, s = Top.cell, NEW v,
           NEW w, w = Append(stack[Len(stack) - 1].got, v), PoppedTo(w),
           s \notin Valued' => Kept(s)' /\ v = Shown(s)'
    PROVE  \A y : Len(stack) > 1 /\ Evaluates(stack[Len(stack) - 1]) /\ y = stack[Len(stack) - 1].cell
                  => Fed(y, w)'
<1> DEFINE n == Len(stack)
<1>1. n \in Nat \ {0} /\ Top = stack[n] /\ n \in 1 .. n /\ s \in Cells /\ UNCHANGED content
  BY TopIs DEF StackOK, Proper, Calm
<1> SUFFICES ASSUME NEW y, n > 1, Evaluates(stack[n - 1]), y = stack[n - 1].cell
             PROVE  Fed(y, w)'
  OBVIOUS
<1>2. n - 1 \in 1 .. n /\ n - 1 < n
  BY <1>1
<1>3. PICK f : f = stack[n - 1]
  OBVIOUS
<1>4. Waits(f, stack[n])
  BY <1>1, <1>3, CallerWaits
<1>5. IsFrame(f) /\ Proper(f, content) /\ Ready(f)
  BY <1>2, <1>3 DEF StackOK, FramesOK, Reading
<1>6. y \in Cells /\ IsList(f.got) /\ Free(y) /\ Fed(y, f.got)
  BY <1>3, <1>5 DEF Evaluates, Proper, IsFrame, Ready
<1>7. Fed(y, f.got)'
  BY <1>6, FedStays
<1>8. Len(f.got) < Len(SourcesOf(y)) /\ s = SourcesOf(y)[Len(f.got) + 1]
  BY <1>1, <1>3, <1>4 DEF Waits
<1>9. s \in Reach(y)
  BY <1>1, <1>2 DEF Through
<1>10. y \notin Reach(y) => s \notin Valued'
  <2> SUFFICES ASSUME y \notin Reach(y), s \in Valued' PROVE FALSE
    OBVIOUS
  <2>1. PICK j \in 1 .. n - 1 : stack[j].call = "value" /\ s = stack[j].cell
    BY ValuedPopped
  <2>2. Evaluates(stack[j])
    BY <2>1 DEF Evaluates
  <2> QED BY <1>1, <1>2, <1>9, <2>1, <2>2, NotBelow
<1>11. Fed(y, Append(f.got, v))'
  BY <1>1, <1>6, <1>7, <1>8, <1>10, FedMore
<1> QED BY <1>3, <1>11

\* Where no spill is registered, the map is as it was.
LEMMA MapRests ==
    ASSUME Found, Tried, SheetOK, Calm, UNCHANGED <<grids, blocked>>, Ahead' = Ahead,
           anchors \subseteq anchors'
    PROVE  Found' /\ Tried'
<1>1. Done' = Done /\ UNCHANGED content
  BY DEF Done, Calm
<1>2. \A a \in Done' : IsArray(a)'
  BY <1>1, ReadsRest DEF Found
<1>3. \A a \in DOMAIN grids' : Region(a, content'[a], Len(grids'[a])) \subseteq Claims(a)'
  BY <1>1, ReadsRest DEF Found
<1>4. Ahead' \subseteq anchors'
  BY DEF Found
<1>5. Found'
  BY <1>2, <1>3, <1>4 DEF Found, Region, Place
<1>6. Tried'
  BY <1>1, ReadsRest DEF Tried
<1> QED BY <1>5, <1>6

\* Where no value is cached, the values that are stay justified.
LEMMA CachingRests ==
    ASSUME Caching, SheetOK, Calm, UNCHANGED cache,
           \A p \in DOMAIN cache : p \in Valued' => p \in Valued
    PROVE  Caching'
<1> SUFFICES ASSUME NEW p \in DOMAIN cache
             PROVE  p \in Cells /\ Ripe(p)' /\ Free(p)' /\ Justified(p)'
  BY DEF Caching
<1>1. p \in Cells /\ Ripe(p) /\ Free(p) /\ Justified(p)
  BY DEF Caching
<1>2. p \notin Reach(p) => p \notin Valued'
  BY <1>1 DEF Justified
<1> QED BY <1>1, <1>2, RipeStays, JustifiedStays DEF Calm

-----------------------------------------------------------------------------
(***************************************************************************)
(* The answers of get_value that need no computing.                        *)
(***************************************************************************)
\* A read finds a value that is known, finds nothing, or finds a value that it
\* remembers: of no scalar formula, unless that one depends on itself.
FindsKnown(s, v)   == s \in DOMAIN cache /\ v = cache[s] /\ UNCHANGED cache
FindsNothing(s, v) == /\ s \notin DOMAIN cache /\ s \notin DOMAIN owner
                      /\ content[s] = Empty /\ v = Blank /\ UNCHANGED cache
FindsNew(s, v)     == /\ s \notin DOMAIN cache
                      /\ content[s] # Empty \/ s \in DOMAIN owner
                      /\ content[s].kind \in {"sum", "sumspill"} => s \in Reach(s)
                      /\ Remember(s, v)

Finds(s, v) == FindsKnown(s, v) \/ FindsNothing(s, v) \/ FindsNew(s, v)

LEMMA EmptyIs == Empty.kind = "empty"
BY DEF Empty

\* A cell that is being computed when it is asked for depends on itself.
LEMMA CircularReach ==
    ASSUME StackOK, stack # <<>>, Through, Top.call = "ask", Top.cell \in Computing
    PROVE  Top.cell \in Reach(Top.cell)
<1>1. Len(stack) \in Nat \ {0} /\ Top = stack[Len(stack)]
  BY TopIs DEF StackOK
<1>2. PICK i \in 1 .. Len(stack) : Evaluates(stack[i]) /\ stack[i].cell = Top.cell
  BY DEF Computing, Evaluates
<1>3. i # Len(stack)
  BY <1>1, <1>2 DEF Evaluates
<1>4. i < Len(stack) /\ Len(stack) \in 1 .. Len(stack)
  BY <1>1, <1>3
<1> QED BY <1>1, <1>2, <1>4 DEF Through

LEMMA AnswerIs ==
    ASSUME StackOK, Through, Found,
           AnswerCached \/ AnswerEmpty \/ AnswerPlain \/ AnswerAnchor \/ AnswerCircular
    PROVE  /\ stack # <<>> /\ Top.call = "ask"
           /\ UNCHANGED <<content, dirty, anchors, owner, grids, blocked>>
           /\ \E v : Return(v) /\ Finds(Top.cell, v)
<1> DEFINE s == Top.cell
<1>1. CASE AnswerCached
  BY <1>1 DEF AnswerCached, Asked, Finds, FindsKnown
<1>2. CASE AnswerEmpty
  <2>1. /\ stack # <<>> /\ Top.call = "ask" /\ s \notin DOMAIN cache /\ content[s] = Empty
        /\ UNCHANGED <<content, dirty, anchors, owner, grids, blocked>>
        /\ \/ s \in DOMAIN owner /\ Return(Element(s)) /\ Remember(s, Element(s))
           \/ s \notin DOMAIN owner /\ Return(Blank) /\ UNCHANGED cache
    BY <1>2 DEF AnswerEmpty, Asked
  <2> HIDE DEF s
  <2>2. CASE s \in DOMAIN owner /\ Return(Element(s)) /\ Remember(s, Element(s))
    <3>1. content[s].kind \notin {"sum", "sumspill"}
      BY <2>1, EmptyIs
    <3>2. FindsNew(s, Element(s))
      BY <2>1, <2>2, <3>1 DEF FindsNew
    <3> QED BY <2>1, <2>2, <3>2 DEF Finds, s
  <2>3. CASE s \notin DOMAIN owner /\ Return(Blank) /\ UNCHANGED cache
    <3>1. FindsNothing(s, Blank)
      BY <2>1, <2>3 DEF FindsNothing
    <3> QED BY <2>1, <2>3, <3>1 DEF Finds, s
  <2> QED BY <2>1, <2>2, <2>3
<1>3. CASE AnswerPlain
  <2>1. /\ stack # <<>> /\ Top.call = "ask" /\ s \notin DOMAIN cache /\ content[s].kind = "plain"
        /\ UNCHANGED <<content, dirty, anchors, owner, grids, blocked>>
        /\ Return(content[s].size) /\ Remember(s, content[s].size)
    BY <1>3 DEF AnswerPlain, Asked
  <2> HIDE DEF s
  <2>2. FindsNew(s, content[s].size)
    BY <2>1, EmptyIs DEF FindsNew
  <2> QED BY <2>1, <2>2 DEF Finds, s
<1>4. CASE AnswerAnchor
  <2>1. /\ stack # <<>> /\ Top.call = "ask" /\ s \notin DOMAIN cache /\ s \in Done
        /\ UNCHANGED <<content, dirty, anchors, owner, grids, blocked>>
        /\ \E v : Return(v) /\ Remember(s, v)
    BY <1>4 DEF AnswerAnchor, Asked, Done
  <2> HIDE DEF s
  <2>2. content[s].kind \in {"filter", "sequence", "hidden"}
    BY <2>1 DEF Found, IsArray
  <2>3. \A v : Remember(s, v) => FindsNew(s, v)
    BY <2>1, <2>2, EmptyIs DEF FindsNew
  <2> QED BY <2>1, <2>3 DEF Finds, s
<1>5. CASE AnswerCircular
  <2>1. /\ stack # <<>> /\ Top.call = "ask" /\ s \notin DOMAIN cache
        /\ IsFormula(content[s]) /\ s \in Computing
        /\ UNCHANGED <<content, dirty, anchors, owner, grids, blocked>>
        /\ Return(Circ) /\ Remember(s, Circ)
    BY <1>5 DEF AnswerCircular, Computable, Asked
  <2>2. s \in Reach(s)
    BY <2>1, CircularReach
  <2> HIDE DEF s
  <2>3. FindsNew(s, Circ)
    BY <2>1, <2>2, EmptyIs DEF FindsNew, IsFormula
  <2> QED BY <2>1, <2>3 DEF Finds, s
<1> QED BY <1>1, <1>2, <1>3, <1>4, <1>5

LEMMA RememberIs ==
    ASSUME NEW s, NEW v, Remember(s, v)
    PROVE  /\ DOMAIN cache' = DOMAIN cache \cup {s}
           /\ cache'[s] = v
           /\ \A q \in DOMAIN cache : q # s => cache'[q] = cache[q]
BY DEF Remember

LEMMA FindsIs ==
    ASSUME NEW s, NEW v, Finds(s, v), UNCHANGED <<content, owner, grids>>
    PROVE  /\ \A q \in DOMAIN cache : q \in DOMAIN cache' /\ cache'[q] = cache[q]
           /\ \A q \in DOMAIN cache' : q \in DOMAIN cache \/ (q = s /\ FindsNew(s, v))
           /\ \A q : content[q] = Empty /\ q \notin DOMAIN owner /\ q \notin DOMAIN cache =>
                         q \notin DOMAIN cache'
           /\ s \in DOMAIN cache' \/ (content[s] = Empty /\ s \notin DOMAIN owner)
           /\ v = Shown(s)'
<1>1. CASE FindsKnown(s, v)
  <2>1. s \in DOMAIN cache' /\ v = cache'[s]
    BY <1>1 DEF FindsKnown
  <2> QED BY <1>1, <2>1 DEF FindsKnown, Shown
<1>2. CASE FindsNothing(s, v)
  <2>1. v = Shown(s)'
    BY <1>2 DEF FindsNothing, Shown, HasContent
  <2> QED BY <1>2, <2>1 DEF FindsNothing
<1>3. CASE FindsNew(s, v)
  <2>1. /\ DOMAIN cache' = DOMAIN cache \cup {s} /\ cache'[s] = v /\ s \notin DOMAIN cache
        /\ \A q \in DOMAIN cache : q # s => cache'[q] = cache[q]
        /\ content[s] # Empty \/ s \in DOMAIN owner
    BY <1>3, RememberIs DEF FindsNew
  <2>2. v = Shown(s)'
    BY <2>1 DEF Shown
  <2> QED BY <1>3, <2>1, <2>2
<1> QED BY <1>1, <1>2, <1>3 DEF Finds

\* What cells show, they go on showing.
LEMMA ShownStays ==
    ASSUME NEW q, Kept(q), UNCHANGED content, q \notin Valued',
           q \in DOMAIN cache => q \in DOMAIN cache' /\ cache'[q] = cache[q],
           q \notin DOMAIN cache => q \notin DOMAIN cache' /\ q \notin DOMAIN owner'
    PROVE  Kept(q)' /\ Shown(q)' = Shown(q)
<1>1. CASE q \in DOMAIN cache
  BY <1>1 DEF Kept, Shown
<1>2. CASE q \notin DOMAIN cache
  <2>1. content[q] = Empty /\ q \notin DOMAIN owner
    BY <1>2 DEF Kept
  <2> QED BY <1>2, <2>1 DEF Kept, Shown, HasContent
<1> QED BY <1>1, <1>2

LEMMA AnswersOrder ==
    ASSUME IInv, Orderly, Listed, ~ dirty, Ordered,
           AnswerCached \/ AnswerEmpty \/ AnswerPlain \/ AnswerAnchor \/ AnswerCircular
    PROVE  Ordered'
<1>1. SheetOK /\ StackOK /\ Calls /\ Through /\ Reading /\ Caching /\ Found /\ Tried
  BY DEF IInv, Ordered
<1>2. /\ stack # <<>> /\ Top.call = "ask"
      /\ UNCHANGED <<content, dirty, anchors, owner, grids, blocked>>
  BY <1>1, AnswerIs
<1>3. PICK v : Return(v) /\ Finds(Top.cell, v)
  BY <1>1, AnswerIs
<1>4. PICK s : s = Top.cell
  OBVIOUS
<1> DEFINE n == Len(stack)
<1>5. PICK w : w = Append(stack[n - 1].got, v) /\ PoppedTo(w)
  BY <1>1, <1>2, <1>3, ReturnGives DEF StackOK
<1>6. PassRests
  BY <1>1, AnswersRest
<1>7. Ahead' = Ahead /\ Done' = Done
  BY <1>2, <1>6 DEF Ahead, Done, PassRests
<1>8. n \in Nat \ {0} /\ Top = stack[n] /\ n \in 1 .. n
  BY <1>1, <1>2, TopIs DEF StackOK
<1>9. s \in Cells /\ Ripe(s) /\ Free(s)
  BY <1>1, <1>2, <1>4, <1>8 DEF StackOK, FramesOK, Proper, Reading
<1>10. Valued' = Valued
  BY <1>1, <1>2, <1>5, ValuedPopped
<1>11. Calm
  <2>1. ASSUME NEW q, Kept(q) PROVE Kept(q)' /\ Shown(q)' = Shown(q)
    <3>1. q \notin Valued'
      BY <1>10, <2>1 DEF Kept
    <3>2. q \in DOMAIN cache => q \in DOMAIN cache' /\ cache'[q] = cache[q]
      BY <1>2, <1>3, FindsIs
    <3>3. q \notin DOMAIN cache => q \notin DOMAIN cache' /\ q \notin DOMAIN owner'
      BY <1>2, <1>3, <2>1, FindsIs DEF Kept
    <3> QED BY <1>2, <2>1, <3>1, <3>2, <3>3, ShownStays
  <2>2. \A q : SameGrid(q)
    BY <1>2 DEF SameGrid
  <2> QED BY <1>2, <1>7, <2>1, <2>2 DEF Calm
<1>12. Calls' /\ Through'
  BY <1>1, <1>2, <1>5, CallsPopped
<1>13. Found' /\ Tried'
  BY <1>1, <1>2, <1>7, <1>11, MapRests
<1>15. s \notin Reach(s) => s \notin Valued
  <2> SUFFICES ASSUME s \in Valued PROVE s \in Reach(s)
    OBVIOUS
  <2>1. s \in Computing
    BY ValuedMembers DEF Computing
  <2> QED BY <1>1, <1>2, <1>4, <2>1, CircularReach
<1>16. Caching'
  <2> SUFFICES ASSUME NEW p \in DOMAIN cache'
               PROVE  p \in Cells /\ Ripe(p)' /\ Free(p)' /\ Justified(p)'
    BY DEF Caching
  <2>1. CASE p \in DOMAIN cache
    <3>1. p \in Cells /\ Ripe(p) /\ Free(p) /\ Justified(p) /\ cache'[p] = cache[p]
      BY <1>1, <1>2, <1>3, <2>1, FindsIs DEF Caching
    <3>2. p \notin Reach(p) => p \notin Valued'
      BY <1>10, <3>1 DEF Justified
    <3> QED BY <1>1, <1>2, <1>7, <1>11, <3>1, <3>2, RipeStays, JustifiedStays
  <2>2. CASE p = s /\ FindsNew(s, v)
    <3>1. content[s].kind \in {"sum", "sumspill"} => s \in Reach(s)
      BY <2>2 DEF FindsNew
    <3>2. Justified(s)'
      BY <1>2, <1>10, <1>15, <3>1, ReadsRest DEF Justified, Agrees
    <3> QED BY <1>2, <1>7, <1>9, <2>2, <3>2, RipeStays
  <2> QED BY <1>2, <1>3, <1>4, <2>1, <2>2, FindsIs
<1>17. \A y : n > 1 /\ Evaluates(stack[n - 1]) /\ y = stack[n - 1].cell => Fed(y, w)'
  <2>1. s \notin Valued' => Kept(s)' /\ v = Shown(s)'
    BY <1>2, <1>3, <1>4, FindsIs DEF Kept
  <2> QED BY <1>1, <1>2, <1>4, <1>5, <1>11, <2>1, CallerFed
<1>18. n > 1 => stack[n - 1].call # "ask"
  BY <1>1, <1>2, <1>8, CallerWaits DEF Evaluates
<1>19. Reading'
  BY <1>1, <1>2, <1>5, <1>7, <1>11, <1>13, <1>17, <1>18, ReadingPopped
<1> QED BY <1>12, <1>13, <1>16, <1>19 DEF Ordered

-----------------------------------------------------------------------------
(***************************************************************************)
(* get_value has computed a value.                                         *)
(***************************************************************************)
\* A formula that get_value computes gives no list: the pass has had the
\* arrays that it may come to, and those that were no list then are none now.
LEMMA GivesNoList ==
    ASSUME SheetOK, Tried, NEW x \in Cells, IsFormula(content[x]), Ripe(x), x \notin Done, NEW got
    PROVE  Result(content[x], got).list = FALSE
<1>1. content[x].kind \in {"sum", "filter", "sequence", "hidden", "sumspill"}
  BY SpillAssumption DEF SheetOK, IsFormula, Kinds
<1>2. CASE content[x].kind \in {"sum", "sumspill"}
  BY <1>2, ScalarResult, ScalarShows
<1>3. CASE content[x].kind \in {"filter", "sequence", "hidden"}
  <2>1. x \in Ahead
    BY <1>3 DEF IsArray, Tried
  <2>2. x \in Claims(x)
    BY DEF Claims
  <2> QED BY <1>3, <2>1, <2>2 DEF Ripe, IsArray
<1> QED BY <1>1, <1>2, <1>3

\* What was read is what the cells show.
LEMMA GotIsShown ==
    ASSUME SheetOK, NEW x \in Cells, NEW got, IsList(got), Len(got) = Len(SourcesOf(x)),
           UNCHANGED content, Fed(x, got)', x \notin Reach(x)
    PROVE  ShownBy(x)' = got /\ AllKept(x, Len(SourcesOf(x)))'
<1>1. SourcesOf(x)' = SourcesOf(x) /\ Reach(x)' = Reach(x)
  BY ReadsRest
<1>2. PICK n \in Nat : n = Len(got) /\ got = [i \in 1 .. n |-> got[i]]
  BY DEF IsList
<1>3. DOMAIN SourcesOf(x) = 1 .. n
  BY <1>2, SourcesAre DEF IsList
<1>4. \A k \in 1 .. n : got[k] = Shown(SourcesOf(x)[k])'
  BY <1>1, <1>2 DEF Fed
<1>5. ShownBy(x)' = [i \in 1 .. n |-> Shown(SourcesOf(x)[i])']
  BY <1>1, <1>3 DEF ShownBy
<1>6. ShownBy(x)' = got
  BY <1>2, <1>4, <1>5
<1>7. AllKept(x, Len(SourcesOf(x)))'
  BY <1>1 DEF Fed
<1> QED BY <1>6, <1>7

LEMMA DeliverIs ==
    ASSUME IInv, Orderly, Listed, Ordered, Deliver
    PROVE  /\ stack # <<>> /\ Top.call = "value"
           /\ Top.cell \in Cells /\ IsList(Top.got) /\ IsFormula(content[Top.cell])
           /\ Free(Top.cell) /\ Ripe(Top.cell) /\ Fed(Top.cell, Top.got)
           /\ Len(Top.got) = Len(SourcesOf(Top.cell))
           /\ UNCHANGED <<content, dirty, anchors, owner, grids, blocked>>
           /\ LET v == First(Result(content[Top.cell], Top.got).values)
              IN  Return(v) /\ Remember(Top.cell, v)
<1> DEFINE r == Result(content[Top.cell], Top.got)
<1>1. /\ stack # <<>> /\ Top.call = "value"
      /\ Len(Top.got) = Len(SourcesOf(Top.cell))
      /\ UNCHANGED <<content, owner, grids, blocked>>
      /\ anchors' = IF r.list THEN anchors \cup {Top.cell} ELSE anchors
      /\ dirty' = (dirty \/ r.list)
      /\ Return(First(r.values)) /\ Remember(Top.cell, First(r.values))
  BY DEF Deliver, Evaluated, Evaluating, SourcesOf
<1>2. SheetOK /\ StackOK /\ Reading /\ Tried
  BY DEF IInv, Ordered
<1>3. IsFrame(Top) /\ Proper(Top, content) /\ Top = stack[Len(stack)] /\ Len(stack) \in 1 .. Len(stack)
  BY <1>1, <1>2, TopIs DEF StackOK
<1>4. Ready(Top)
  BY <1>2, <1>3 DEF Reading
<1>5. /\ Top.cell \in Cells /\ IsList(Top.got) /\ IsFormula(content[Top.cell])
      /\ Free(Top.cell) /\ Ripe(Top.cell) /\ Fed(Top.cell, Top.got) /\ Top.cell \notin Done
  BY <1>1, <1>3, <1>4 DEF IsFrame, Proper, Ready, Evaluates
<1>6. r.list = FALSE
  BY <1>1, <1>2, <1>5, GivesNoList
<1> HIDE DEF r
<1>7. dirty' = dirty /\ anchors' = anchors
  BY <1>1, <1>2, <1>6 DEF SheetOK
<1> QED BY <1>1, <1>5, <1>7 DEF r

LEMMA DeliverOrder ==
    ASSUME IInv, Orderly, Listed, Ordered, Deliver
    PROVE  Ordered' /\ UNCHANGED <<dirty, anchors>>
<1>1. SheetOK /\ StackOK /\ Calls /\ Through /\ Reading /\ Caching /\ Found /\ Tried
  BY DEF IInv, Ordered
<1>2. /\ stack # <<>> /\ Top.call = "value"
      /\ UNCHANGED <<content, dirty, anchors, owner, grids, blocked>>
  BY DeliverIs
<1>3. PICK x, got, v :
         /\ x = Top.cell /\ got = Top.got
         /\ v = First(Result(content[x], got).values)
  OBVIOUS
<1>4. /\ x \in Cells /\ IsList(got) /\ IsFormula(content[x])
      /\ Free(x) /\ Ripe(x) /\ Fed(x, got) /\ Len(got) = Len(SourcesOf(x))
      /\ Return(v) /\ Remember(x, v)
  BY <1>3, DeliverIs
<1> DEFINE n == Len(stack)
<1>5. PICK w : w = Append(stack[n - 1].got, v) /\ PoppedTo(w)
  BY <1>1, <1>2, <1>4, ReturnGives DEF StackOK
<1>6. PassRests
  BY <1>1, DeliverRests
<1>7. Ahead' = Ahead /\ Done' = Done
  BY <1>2, <1>6 DEF Ahead, Done, PassRests
<1>8. n \in Nat \ {0} /\ Top = stack[n] /\ n \in 1 .. n
  BY <1>1, <1>2, TopIs DEF StackOK
<1>9. x \in Valued
  BY <1>2, <1>3, <1>8, ValuedMembers
<1>10. /\ Valued' \subseteq Valued
       /\ \A p \in Valued' : \E i \in 1 .. n - 1 : stack[i].call = "value" /\ p = stack[i].cell
  BY <1>1, <1>2, <1>5, ValuedPopped
<1>11. /\ DOMAIN cache' = DOMAIN cache \cup {x} /\ cache'[x] = v
       /\ \A q \in DOMAIN cache : q # x => cache'[q] = cache[q]
  BY <1>4, RememberIs
<1>12. Calm
  <2>1. ASSUME NEW q, Kept(q) PROVE Kept(q)' /\ Shown(q)' = Shown(q)
    <3>1. q # x /\ q \notin Valued' /\ (q \notin DOMAIN cache => q \notin DOMAIN owner)
      BY <1>9, <1>10, <2>1 DEF Kept
    <3> QED BY <1>2, <1>11, <2>1, <3>1, ShownStays
  <2>2. \A q : SameGrid(q)
    BY <1>2 DEF SameGrid
  <2> QED BY <1>2, <1>7, <2>1, <2>2 DEF Calm
<1>13. Calls' /\ Through'
  BY <1>1, <1>2, <1>5, CallsPopped
<1>14. Found' /\ Tried'
  BY <1>1, <1>2, <1>7, <1>12, MapRests
<1>16. Justified(x)'
  <2> SUFFICES ASSUME x \notin Reach(x)
               PROVE  /\ x \notin Valued'
                      /\ content[x].kind = "sum" => AllKept(x, Len(SourcesOf(x)))'
                      /\ Agrees(x)'
    BY <1>2, ReadsRest DEF Justified
  <2>1. x \notin Valued'
    <3> SUFFICES ASSUME x \in Valued' PROVE FALSE
      OBVIOUS
    <3>1. PICK i \in 1 .. n - 1 : stack[i].call = "value" /\ x = stack[i].cell
      BY <1>10
    <3>2. i < n /\ i \in 1 .. n
      BY <1>8
    <3> QED BY <1>1, <1>3, <1>8, <3>1, <3>2 DEF Through, Evaluates
  <2>2. Fed(x, got)'
    BY <1>1, <1>4, <1>12, FedStays
  <2>3. ShownBy(x)' = got /\ AllKept(x, Len(SourcesOf(x)))'
    BY <1>1, <1>2, <1>4, <2>2, GotIsShown
  <2>4. content[x].kind = "sum" => ValueOf(x)' = v
    BY <1>2, <1>3, <2>3, ScalarResult, ScalarShows, ValueIsAfter
  <2>5. content[x].kind = "sumspill" => ValueOf(x)' = v
    <3> HAVE content[x].kind = "sumspill"
    <3>1. v = SpillSum(content[x].from[1])
      BY <1>3, ScalarResult, ScalarShows
    <3>2. ValueOf(x)' = SpillSum(content[x].from[1])'
      BY <1>2, ValueIsAfter
    <3> QED BY <1>1, <1>4, <1>12, <3>1, <3>2, SpillSumStays
  <2>6. Agrees(x)'
    BY <1>2, <1>11, <2>4, <2>5 DEF Agrees
  <2> QED BY <2>1, <2>3, <2>6
<1>17. Caching'
  <2> SUFFICES ASSUME NEW p \in DOMAIN cache'
               PROVE  p \in Cells /\ Ripe(p)' /\ Free(p)' /\ Justified(p)'
    BY DEF Caching
  <2>1. CASE p = x
    BY <1>2, <1>4, <1>7, <1>16, <2>1, RipeStays
  <2>2. CASE p # x
    <3>1. p \in Cells /\ Ripe(p) /\ Free(p) /\ Justified(p) /\ cache'[p] = cache[p]
      BY <1>1, <1>11, <2>2 DEF Caching
    <3>2. p \notin Reach(p) => p \notin Valued'
      BY <1>10, <3>1 DEF Justified
    <3> QED BY <1>1, <1>2, <1>7, <1>12, <3>1, <3>2, RipeStays, JustifiedStays
  <2> QED BY <2>1, <2>2
<1>18. \A y : n > 1 /\ Evaluates(stack[n - 1]) /\ y = stack[n - 1].cell => Fed(y, w)'
  <2>1. x \notin Valued' => Kept(x)' /\ v = Shown(x)'
    BY <1>11 DEF Kept, Shown
  <2> QED BY <1>1, <1>2, <1>3, <1>5, <1>12, <2>1, CallerFed
<1>19. n > 1 => stack[n - 1].call # "ask"
  BY <1>1, <1>2, <1>8, CallerWaits DEF Evaluates
<1>20. Reading'
  BY <1>1, <1>2, <1>5, <1>7, <1>12, <1>14, <1>18, <1>19, ReadingPopped
<1> QED BY <1>2, <1>13, <1>14, <1>17, <1>20 DEF Ordered

-----------------------------------------------------------------------------
(***************************************************************************)
(* Calls are made.                                                         *)
(***************************************************************************)
LEMMA NothingFed ==
    ASSUME SheetOK, UNCHANGED content, NEW p \in Cells
    PROVE  Fed(p, <<>>)'
<1>1. SourcesOf(p)' = SourcesOf(p) /\ Len(SourcesOf(p)) \in Nat
  BY ReadsRest, SourcesAre
<1>2. Len(<<>>) = 0 /\ 0 <= Len(SourcesOf(p)') /\ 1 .. 0 = {}
  BY <1>1, EmptyIsList
<1> QED BY <1>2 DEF Fed, AllKept

LEMMA FrameIs ==
    ASSUME NEW call, NEW p
    PROVE  /\ Frame(call, p).call = call /\ Frame(call, p).cell = p
           /\ Frame(call, p).got = <<>> /\ Frame(call, p).todo = {}
BY DEF Frame

LEMMA ComputeOrder ==
    ASSUME IInv, Orderly, Listed, Ordered, Compute
    PROVE  Ordered'
<1>1. SheetOK /\ StackOK /\ Calls /\ Through /\ Reading /\ Caching /\ Found /\ Tried
  BY DEF IInv, Ordered
<1>2. PICK s : s = Top.cell
  OBVIOUS
<1>3. /\ stack # <<>> /\ Top.call = "ask" /\ s \notin DOMAIN cache /\ IsFormula(content[s])
      /\ s \notin Done
      /\ stack' = Append(Rest, Frame("value", s))
      /\ UNCHANGED <<content, cache, dirty, anchors, owner, grids, blocked>>
  BY <1>2 DEF Compute, Computable, Asked, Done
<1> DEFINE n == Len(stack)
           f == Frame("value", s)
<1>4. /\ n \in Nat \ {0} /\ IsList(stack) /\ Top = stack[n] /\ n \in 1 .. n /\ s \in Cells
  BY <1>1, <1>2, <1>3, TopIs DEF StackOK, Proper, FramesOK
<1>5. Ripe(s) /\ Free(s)
  BY <1>1, <1>2, <1>3, <1>4 DEF Reading
<1>6. f.call = "value" /\ f.cell = s /\ f.got = <<>>
  BY FrameIs
<1> HIDE DEF f
<1>7. /\ Len(stack') = n /\ stack'[n] = f
      /\ \A i \in 1 .. n - 1 : stack'[i] = stack[i]
  <2>1. IsList(Rest) /\ Len(Rest) = n - 1 /\ \A i \in 1 .. n - 1 : Rest[i] = stack[i]
    BY <1>4, Dropped DEF Rest
  <2>2. /\ Len(stack') = Len(Rest) + 1 /\ stack'[Len(Rest) + 1] = f
        /\ \A i \in 1 .. Len(Rest) : stack'[i] = Rest[i]
    BY <1>3, <2>1, Appended DEF f
  <2> QED BY <1>4, <2>1, <2>2
<1>8. Ahead' = Ahead /\ Done' = Done
  BY <1>1, <1>3, ComputeRests DEF Ahead, Done, PassRests
<1> HIDE DEF n
<1>9. \A i \in 1 .. n : i \in 1 .. n - 1 \/ i = n
  BY <1>4
<1>10. \A i \in 1 .. n : stack'[i].cell = stack[i].cell /\ (i # n => stack'[i] = stack[i])
  BY <1>2, <1>4, <1>6, <1>7, <1>9
<1>11. \A p \in Valued' : p \in Valued \/ p = s
  BY <1>4, <1>6, <1>7, <1>9, ValuedMembers DEF n
<1>12. Calm
  <2>1. ASSUME NEW q, Kept(q) PROVE Kept(q)' /\ Shown(q)' = Shown(q)
    <3>1. q # s
      BY <1>3, <2>1, EmptyIs DEF Kept, IsFormula
    <3>2. q \notin Valued' /\ (q \notin DOMAIN cache => q \notin DOMAIN owner)
      BY <1>11, <2>1, <3>1 DEF Kept
    <3> QED BY <1>3, <2>1, <3>2, ShownStays
  <2>2. \A q : SameGrid(q)
    BY <1>3 DEF SameGrid
  <2> QED BY <1>3, <1>8, <2>1, <2>2 DEF Calm
<1>13. Found' /\ Tried'
  BY <1>1, <1>3, <1>8, <1>12, MapRests
<1>14. Caching'
  BY <1>1, <1>3, <1>11, <1>12, CachingRests
<1>15. Through'
  <2> SUFFICES ASSUME NEW i \in 1 .. n, NEW j \in 1 .. n, i < j, Evaluates(stack[i])'
               PROVE  stack'[j].cell \in Reach(stack[i].cell)'
    BY <1>7 DEF Through
  <2>1. i # n
    BY <1>4
  <2>2. stack'[i] = stack[i] /\ stack'[j].cell = stack[j].cell
    BY <1>10, <2>1
  <2>3. stack[j].cell \in Reach(stack[i].cell)
    BY <1>1, <2>2 DEF Through, Evaluates, n
  <2> QED BY <1>3, <2>2, <2>3, ReadsRest
<1>16. Calls'
  <2>1. ASSUME NEW i \in 1 .. n - 1
        PROVE  /\ stack'[i].call = "ask" => i = 1 /\ stack'[2].call = "pass"
               /\ Evaluates(stack[i])' => Waits(stack[i], stack[i + 1])'
    <3>1. i \in 1 .. n /\ i # n /\ i + 1 \in 1 .. n /\ stack'[i] = stack[i]
      BY <1>4, <1>10
    <3>2. /\ stack[i].call = "ask" => i = 1 /\ stack[2].call = "pass"
          /\ Evaluates(stack[i]) => Waits(stack[i], stack[i + 1])
      BY <1>1 DEF Calls, n
    <3>3. stack[n].call = "ask"
      BY <1>3, <1>4
    <3>4. stack[i].call = "ask" => i = 1 /\ stack'[2].call = "pass"
      <4> HAVE stack[i].call = "ask"
      <4>1. i = 1 /\ stack[2].call = "pass" /\ 2 \in 1 .. n /\ 2 # n
        BY <3>1, <3>2, <3>3
      <4> QED BY <1>10, <4>1
    <3>5. Evaluates(stack[i])' => Waits(stack[i], stack[i + 1])'
      <4>1. stack'[i + 1].cell = stack[i + 1].cell
        BY <1>10, <3>1
      <4>2. Waits(stack[i], stack[i + 1]) => stack'[i + 1].call \in {"ask", "value"}
        BY <1>6, <1>7, <1>10, <3>1 DEF Waits
      <4>3. SourcesOf(stack[i].cell)' = SourcesOf(stack[i].cell)
        BY <1>3, <3>1, ReadsRest
      <4> QED BY <3>1, <3>2, <4>1, <4>2, <4>3 DEF Evaluates, Waits
    <3> QED BY <3>1, <3>4, <3>5
  <2>2. stack'[1].call \in {"ask", "value"}
    <3>1. 1 \in 1 .. n /\ n > 0
      BY <1>4
    <3> QED BY <1>1, <1>6, <1>7, <1>10, <3>1 DEF Calls, n
  <2> QED BY <1>7, <2>1, <2>2 DEF Calls
<1>17. Reading'
  <2>1. ASSUME NEW i \in 1 .. n
        PROVE  Ready(stack[i])'
    <3>1. CASE i # n
      <4>1. PICK g : g = stack[i]
        OBVIOUS
      <4>2. IsFrame(g) /\ Proper(g, content) /\ Ready(g) /\ stack'[i] = g
        BY <1>1, <1>10, <3>1, <4>1 DEF StackOK, FramesOK, Reading, n
      <4>3. Ready(g)'
        BY <1>1, <1>8, <1>12, <1>13, <4>2, ReadyStays
      <4> QED BY <4>2, <4>3
    <3>2. CASE i = n
      <4>1. PICK g : g = stack'[n]
        OBVIOUS
      <4>2. g.call = "value" /\ g.cell = s /\ g.got = <<>>
        BY <1>6, <1>7, <4>1
      <4>3. Ripe(s)' /\ Free(s)' /\ Fed(s, <<>>)'
        BY <1>1, <1>3, <1>4, <1>5, <1>8, RipeStays, NothingFed
      <4>4. Ready(g)'
        BY <1>3, <1>8, <4>2, <4>3 DEF Ready
      <4> QED BY <3>2, <4>1, <4>4
    <3> QED BY <3>1, <3>2
  <2>2. stack'[n].call # "ask"
    BY <1>6, <1>7
  <2> QED BY <1>7, <2>1, <2>2 DEF Reading
<1> QED BY <1>13, <1>14, <1>15, <1>16, <1>17 DEF Ordered

LEMMA ReadSourceOrder ==
    ASSUME IInv, Orderly, Listed, Ordered, ReadSource
    PROVE  Ordered'
<1>1. SheetOK /\ StackOK /\ Calls /\ Through /\ Reading /\ Caching /\ Found /\ Tried
  BY DEF IInv, Ordered
<1> DEFINE n == Len(stack)
<1>2. PICK x, k, s : x = Top.cell /\ k = Len(Top.got) + 1 /\ s = SourcesOf(x)[k]
  OBVIOUS
<1> DEFINE f == Frame("ask", s)
<1>3. /\ stack # <<>> /\ Evaluates(Top)
      /\ Len(Top.got) < Len(SourcesOf(x))
      /\ stack' = Append(stack, f)
      /\ UNCHANGED <<content, cache, dirty, anchors, owner, grids, blocked>>
  BY <1>2 DEF ReadSource, Evaluating, Evaluates, SourcesOf
<1>4. /\ n \in Nat \ {0} /\ IsList(stack) /\ Top = stack[n] /\ n \in 1 .. n
      /\ x \in Cells /\ IsList(Top.got)
  BY <1>1, <1>2, <1>3, TopIs DEF StackOK, Proper, FramesOK, Evaluates, IsFrame
<1>5. Free(x)
  BY <1>1, <1>2, <1>3, <1>4 DEF Reading, Ready
<1>6. s \in Cells /\ s \in Reach(x)
  <2>1. k \in 1 .. Len(SourcesOf(x))
    BY <1>1, <1>2, <1>3, <1>4, SourcesAre DEF IsList
  <2> QED BY <1>1, <1>2, <1>4, <2>1, SourcesAre
<1>7. Ripe(s) /\ Free(s)
  BY <1>5, <1>6, ReachThrough DEF Free
<1>8. f.call = "ask" /\ f.cell = s /\ f.got = <<>>
  BY FrameIs
<1> HIDE DEF f
<1>9. /\ Len(stack') = n + 1 /\ stack'[n + 1] = f
      /\ \A i \in 1 .. n : stack'[i] = stack[i]
  BY <1>3, <1>4, Appended
<1>10. Ahead' = Ahead /\ Done' = Done
  BY <1>1, <1>3, ReadSourceRests DEF Ahead, Done, PassRests
<1> HIDE DEF n
<1>11. \A i \in 1 .. n + 1 : i \in 1 .. n \/ i = n + 1
  BY <1>4
<1>12. \A p \in Valued' : p \in Valued
  BY <1>8, <1>9, <1>11, ValuedMembers DEF n
<1>13. Calm
  <2>1. ASSUME NEW q, Kept(q) PROVE Kept(q)' /\ Shown(q)' = Shown(q)
    <3>1. q \notin Valued' /\ (q \notin DOMAIN cache => q \notin DOMAIN owner)
      BY <1>12, <2>1 DEF Kept
    <3> QED BY <1>3, <2>1, <3>1, ShownStays
  <2>2. \A q : SameGrid(q)
    BY <1>3 DEF SameGrid
  <2> QED BY <1>3, <1>10, <2>1, <2>2 DEF Calm
<1>14. Found' /\ Tried'
  BY <1>1, <1>3, <1>10, <1>13, MapRests
<1>15. Caching'
  BY <1>1, <1>3, <1>12, <1>13, CachingRests
<1>16. Through'
  <2> SUFFICES ASSUME NEW i \in 1 .. n + 1, NEW j \in 1 .. n + 1, i < j, Evaluates(stack[i])'
               PROVE  stack'[j].cell \in Reach(stack[i].cell)'
    BY <1>9 DEF Through
  <2>1. i \in 1 .. n
    BY <1>4
  <2>2. stack'[i] = stack[i]
    BY <1>9, <2>1
  <2>3. Evaluates(stack[i])
    BY <2>2 DEF Evaluates
  <2>4. stack'[j].cell \in Reach(stack[i].cell)
    <3>1. CASE j \in 1 .. n
      BY <1>1, <1>9, <2>1, <2>3, <3>1 DEF Through, n
    <3>2. CASE j = n + 1
      <4>1. i = n \/ x \in Reach(stack[i].cell)
        BY <1>1, <1>2, <1>4, <2>1, <2>3 DEF Through, n
      <4>2. s \in Reach(stack[i].cell)
        BY <1>2, <1>4, <1>6, <4>1, ReachThrough
      <4> QED BY <1>8, <1>9, <3>2, <4>2
    <3> QED BY <1>11, <3>1, <3>2
  <2> QED BY <1>3, <2>2, <2>4, ReadsRest
<1>17. Calls'
  <2>1. ASSUME NEW i \in 1 .. n
        PROVE  /\ stack'[i].call = "ask" => i = 1 /\ stack'[2].call = "pass"
               /\ Evaluates(stack[i])' => Waits(stack[i], stack[i + 1])'
    <3>1. stack'[i] = stack[i]
      BY <1>9
    <3>2. SourcesOf(stack[i].cell)' = SourcesOf(stack[i].cell)
      BY <1>3, <3>1, ReadsRest
    <3>3. CASE i = n
      <4>1. stack[n].call # "ask"
        BY <1>3, <1>4 DEF Evaluates
      <4>2. Waits(stack[i], stack[i + 1])'
        <5>1. PICK g, h : g = stack'[i] /\ h = stack'[i + 1]
          OBVIOUS
        <5>2. g.cell = x /\ g.got = Top.got /\ h.call = "ask" /\ h.cell = s
          BY <1>2, <1>4, <1>8, <1>9, <3>1, <3>3, <5>1
        <5>3. SourcesOf(x)' = SourcesOf(x)
          BY <1>3, ReadsRest
        <5>4. PICK got : got = Top.got
          OBVIOUS
        <5>5. Len(got) < Len(SourcesOf(x)) /\ s = SourcesOf(x)[Len(got) + 1]
          BY <1>2, <1>3, <5>4
        <5>6. Waits(g, h)'
          BY <5>2, <5>3, <5>4, <5>5 DEF Waits
        <5> QED BY <5>1, <5>6
      <4> QED BY <3>1, <3>3, <4>1, <4>2
    <3>4. CASE i # n
      <4>1. i \in 1 .. n - 1 /\ i + 1 \in 1 .. n
        BY <1>4, <3>4
      <4>2. /\ stack[i].call = "ask" => i = 1 /\ stack[2].call = "pass"
            /\ Evaluates(stack[i]) => Waits(stack[i], stack[i + 1])
        BY <1>1, <4>1 DEF Calls, n
      <4>3. stack'[i + 1] = stack[i + 1] /\ (i = 1 => stack'[2] = stack[2])
        BY <1>9, <4>1
      <4> QED BY <3>1, <3>2, <4>2, <4>3 DEF Evaluates, Waits
    <3> QED BY <3>3, <3>4
  <2>2. stack'[1].call \in {"ask", "value"}
    <3>1. 1 \in 1 .. n /\ n > 0
      BY <1>4
    <3> QED BY <1>1, <1>9, <3>1 DEF Calls, n
  <2>3. Len(stack') - 1 = n
    BY <1>4, <1>9
  <2> QED BY <2>1, <2>2, <2>3 DEF Calls
<1>18. Reading'
  <2>1. ASSUME NEW i \in 1 .. n + 1
        PROVE  Ready(stack[i])'
    <3>1. CASE i \in 1 .. n
      <4>1. PICK g : g = stack[i]
        OBVIOUS
      <4>2. IsFrame(g) /\ Proper(g, content) /\ Ready(g) /\ stack'[i] = g
        BY <1>1, <1>9, <3>1, <4>1 DEF StackOK, FramesOK, Reading, n
      <4>3. Ready(g)'
        BY <1>1, <1>10, <1>13, <1>14, <4>2, ReadyStays
      <4> QED BY <4>2, <4>3
    <3>2. CASE i = n + 1
      BY <1>8, <1>9, <3>2 DEF Ready, Evaluates
    <3> QED BY <1>11, <3>1, <3>2
  <2>2. Ripe(s)' /\ Free(s)'
    BY <1>3, <1>7, <1>10, RipeStays
  <2>3. stack'[n + 1].cell = s
    BY <1>8, <1>9
  <2> QED BY <1>9, <2>1, <2>2, <2>3 DEF Reading
<1> QED BY <1>14, <1>15, <1>16, <1>17, <1>18 DEF Ordered

LEMMA ReadOrder ==
    ASSUME IInv, Orderly, Listed, Ordered, NEW c \in Visible, Read(c)
    PROVE  Ordered'
<1> DEFINE f == Frame("ask", c)
<1>1. SheetOK /\ StackOK /\ Caching /\ Found /\ Tried
  BY DEF IInv, Ordered
<1>2. /\ stack = <<>> /\ stack' = <<f>>
      /\ UNCHANGED <<content, cache, dirty, anchors, owner, grids, blocked>>
  BY DEF Read
<1>3. f.call = "ask" /\ f.cell = c
  BY FrameIs
<1> HIDE DEF f
<1>4. Len(stack) = 0 /\ Len(stack') = 1 /\ stack'[1] = f
  BY <1>2, EmptyIsList
<1>5. Ahead = {} /\ Ahead' = Ahead /\ Done' = Done
  <2>1. Todo = {} /\ Current = {}
    BY <1>4, Members
  <2> QED BY <1>1, <1>2, <2>1, ReadRests DEF Ahead, Done, PassRests
<1>6. Valued' = {}
  BY <1>3, <1>4, ValuedMembers
<1>7. Calm
  <2>1. ASSUME NEW q, Kept(q) PROVE Kept(q)' /\ Shown(q)' = Shown(q)
    BY <1>2, <1>6, <2>1, ShownStays DEF Kept
  <2>2. \A q : SameGrid(q)
    BY <1>2 DEF SameGrid
  <2> QED BY <1>2, <1>5, <2>1, <2>2 DEF Calm
<1>8. Found' /\ Tried'
  BY <1>1, <1>2, <1>5, <1>7, MapRests
<1>9. Caching'
  BY <1>1, <1>2, <1>6, <1>7, CachingRests
<1>10. \A q : Ripe(q)' /\ Free(q)'
  BY <1>5 DEF Ripe, Free
<1>11. \A i \in 1 .. Len(stack') : i = 1
  BY <1>4
<1>12. Through'
  BY <1>11 DEF Through
<1>13. Calls'
  BY <1>3, <1>4 DEF Calls
<1>14. Reading'
  BY <1>3, <1>4, <1>10, <1>11 DEF Reading, Ready, Evaluates
<1> QED BY <1>8, <1>9, <1>12, <1>13, <1>14 DEF Ordered

-----------------------------------------------------------------------------
(***************************************************************************)
(* The pass.                                                               *)
(***************************************************************************)
\* The pass runs within the outermost read, before that computes anything.
LEMMA PassSecond ==
    ASSUME StackOK, Calls, NEW i \in 1 .. Len(stack), stack[i].call = "pass"
    PROVE  i = 2 /\ stack[1].call = "ask" /\ 1 \in 1 .. Len(stack)
<1>1. Len(stack) \in Nat
  BY DEF StackOK, FramesOK, IsList
<1>2. stack[1].call \in {"ask", "value"} /\ 1 \in 1 .. Len(stack)
  BY <1>1 DEF Calls
<1>3. i # 1
  BY <1>2
<1> DEFINE m == i - 1
<1>4. m \in 1 .. Len(stack) - 1 /\ m \in 1 .. Len(stack) /\ m + 1 = i /\ m # i
  BY <1>1, <1>3
<1> HIDE DEF m
<1>5. stack[m].call \in {"ask", "value", "pass", "anchor"}
  BY <1>4 DEF StackOK, FramesOK, IsFrame
<1>6. stack[m].call # "pass"
  BY <1>4 DEF StackOK, Nested
<1>7. ~ Evaluates(stack[m])
  BY <1>4 DEF Calls, Waits
<1>8. stack[m].call = "ask"
  BY <1>5, <1>6, <1>7 DEF Evaluates
<1>9. m = 1
  BY <1>4, <1>8 DEF Calls
<1> QED BY <1>2, <1>4, <1>8, <1>9

LEMMA EndPassOrder ==
    ASSUME IInv, Orderly, Listed, Ordered, EndPass
    PROVE  Ordered'
<1>1. SheetOK /\ StackOK /\ Calls /\ Through /\ Reading /\ Caching /\ Found /\ Tried
  BY DEF IInv, Ordered
<1>2. /\ stack # <<>> /\ Top.call = "pass" /\ Top.todo = {} /\ stack' = Rest
      /\ UNCHANGED <<content, cache, dirty, anchors, owner, grids, blocked>>
  BY DEF EndPass, InPass
<1> DEFINE n == Len(stack)
<1>3. n \in Nat \ {0} /\ Top = stack[n] /\ n \in 1 .. n
  BY <1>1, <1>2, TopIs DEF StackOK
<1>4. n = 2 /\ stack[1].call = "ask"
  BY <1>1, <1>2, <1>3, PassSecond
<1>5. PICK w : PoppedTo(w)
  BY <1>1, <1>2, RestGives DEF StackOK
<1>6. Todo = {} /\ Current = {}
  <2>1. \A i \in 1 .. n : i = 1 \/ i = 2
    BY <1>4
  <2>2. 1 \in 1 .. n
    BY <1>4
  <2>3. stack[1].todo = {}
    BY <1>1, <1>4, <2>2 DEF StackOK, FramesOK, Proper
  <2>4. \A i \in 1 .. n : stack[i].todo = {} /\ stack[i].call # "anchor"
    BY <1>2, <1>3, <1>4, <2>1, <2>3
  <2> QED BY <2>4, Members
<1>7. Todo' = Todo /\ Current' = Current
  BY <1>1, <1>2, RestPops, PopSets DEF StackOK
<1>8. Ahead = {} /\ Ahead' = {} /\ Done' = Done
  BY <1>2, <1>6, <1>7 DEF Ahead, Done
<1>9. Valued' = Valued
  BY <1>1, <1>2, <1>5, ValuedPopped
<1>10. Calm
  <2>1. ASSUME NEW q, Kept(q) PROVE Kept(q)' /\ Shown(q)' = Shown(q)
    BY <1>2, <1>9, <2>1, ShownStays DEF Kept
  <2>2. \A q : SameGrid(q)
    BY <1>2 DEF SameGrid
  <2> QED BY <1>2, <1>8, <2>1, <2>2 DEF Calm
<1>11. Found' /\ Tried'
  BY <1>1, <1>2, <1>8, <1>10, MapRests
<1>12. Caching'
  BY <1>1, <1>2, <1>9, <1>10, CachingRests
<1>13. Calls' /\ Through'
  BY <1>1, <1>2, <1>5, CallsPopped
<1>14. ~ Evaluates(stack[n - 1])
  BY <1>4 DEF Evaluates
<1>15. Reading'
  BY <1>1, <1>2, <1>5, <1>8, <1>10, <1>11, <1>14, ReadingPopped
<1> QED BY <1>11, <1>12, <1>13, <1>15 DEF Ordered

LEMMA NextAnchorIs ==
    ASSUME IInv, Calls, NextAnchor
    PROVE  /\ Len(stack) = 2 /\ stack[1].call = "ask" /\ stack[2].call = "pass"
           /\ UNCHANGED <<content, cache, dirty, anchors, owner, grids, blocked>>
           /\ Ahead = Todo
           /\ \E p \in Todo :
                 /\ \A q \in Todo : p <= q
                 /\ Ahead' = Ahead
                 /\ Len(stack') = 3
                 /\ stack'[1] = stack[1]
                 /\ stack'[2].call = "pass"
                 /\ stack'[3] = Frame("anchor", p)
<1> DEFINE n == Len(stack)
<1>1. /\ stack # <<>> /\ Top.call = "pass"
      /\ UNCHANGED <<content, cache, dirty, anchors, owner, grids, blocked>>
  BY DEF NextAnchor, InPass
<1>2. StackOK
  BY DEF IInv
<1>3. n \in Nat \ {0} /\ Top = stack[n] /\ n \in 1 .. n
  BY <1>1, <1>2, TopIs DEF StackOK
<1>4. n = 2 /\ stack[1].call = "ask" /\ stack[2].call = "pass"
  BY <1>1, <1>2, <1>3, PassSecond
<1>5. PICK p \in Top.todo :
         /\ \A q \in Top.todo : p <= q
         /\ stack' = IF p \in Computing THEN Past(p) ELSE Append(Past(p), Frame("anchor", p))
  BY DEF NextAnchor, Past
<1>6. \A i \in 1 .. n : i = 1 \/ i = 2
  BY <1>4
<1>7. Computing = {}
  <2>1. \A i \in 1 .. n : stack[i].call \notin {"value", "anchor"}
    BY <1>4, <1>6
  <2> QED BY <2>1 DEF Computing
<1>8. stack[1].todo = {}
  <2>1. 1 \in 1 .. n
    BY <1>4
  <2> QED BY <1>2, <1>4, <2>1 DEF StackOK, FramesOK, Proper
<1>9. Todo = Top.todo /\ Current = {}
  <2>1. \A q : q \in Todo <=> q \in Top.todo
    BY <1>3, <1>4, <1>6, <1>8, Members
  <2>2. \A q : q \notin Current
    BY <1>4, <1>6, Members
  <2> QED BY <2>1, <2>2
<1>10. PICK base : base = Past(p)
  OBVIOUS
<1>11. /\ IsList(base) /\ Len(base) = 2 /\ base[1] = stack[1]
       /\ base[2].call = "pass" /\ base[2].todo = Top.todo \ {p}
  <2>1. /\ IsList(base) /\ Len(base) = n
        /\ \A i \in 1 .. n - 1 : base[i] = stack[i]
        /\ base[n].call = Top.call /\ base[n].todo = Top.todo \ {p}
    BY <1>1, <1>2, <1>10, BaseIs DEF StackOK
  <2>2. 1 \in 1 .. n - 1
    BY <1>4
  <2> QED BY <1>1, <1>4, <2>1, <2>2
<1> DEFINE f == Frame("anchor", p)
<1>12. f.call = "anchor" /\ f.cell = p /\ f.todo = {}
  BY FrameIs
<1> HIDE DEF f
<1>13. /\ Len(stack') = 3 /\ stack'[1] = stack[1] /\ stack'[2] = base[2] /\ stack'[3] = f
  <2>1. stack' = Append(base, f)
    BY <1>5, <1>7, <1>10 DEF f
  <2>2. PICK t : t = Append(base, f)
    OBVIOUS
  <2>3. /\ Len(t) = Len(base) + 1
        /\ \A i \in 1 .. Len(base) : t[i] = base[i]
        /\ t[Len(base) + 1] = f
    <3>1. IsList(base)
      BY <1>11
    <3>2. /\ Len(Append(base, f)) = Len(base) + 1
          /\ \A i \in 1 .. Len(base) : Append(base, f)[i] = base[i]
          /\ Append(base, f)[Len(base) + 1] = f
      BY <3>1, Appended
    <3> QED BY <2>2, <3>2
  <2>4. 1 \in 1 .. Len(base) /\ 2 \in 1 .. Len(base) /\ Len(base) + 1 = 3
    BY <1>11
  <2>5. stack' = t
    BY <2>1, <2>2
  <2> QED BY <1>11, <2>3, <2>4, <2>5
<1>14. Ahead' = Ahead
  <2>1. \A i \in 1 .. 3 : i = 1 \/ i = 2 \/ i = 3
    OBVIOUS
  <2>2. 1 \in 1 .. 3 /\ 2 \in 1 .. 3 /\ 3 \in 1 .. 3
    OBVIOUS
  <2>3. \A q : q \in Todo' <=> q \in Top.todo \ {p}
    BY <1>8, <1>11, <1>12, <1>13, <2>1, <2>2, Members
  <2>4. \A q : q \in Current' <=> q = p
    BY <1>4, <1>11, <1>12, <1>13, <2>1, <2>2, Members
  <2> QED BY <1>9, <2>3, <2>4 DEF Ahead
<1> QED BY <1>1, <1>4, <1>5, <1>9, <1>11, <1>13, <1>14 DEF f, Ahead

LEMMA NextAnchorOrder ==
    ASSUME IInv, Orderly, Listed, Ordered, NextAnchor
    PROVE  Ordered'
<1>1. SheetOK /\ StackOK /\ Calls /\ Through /\ Reading /\ Caching /\ Found /\ Tried
  BY DEF IInv, Ordered
<1>2. /\ Len(stack) = 2 /\ stack[1].call = "ask" /\ stack[2].call = "pass"
      /\ UNCHANGED <<content, cache, dirty, anchors, owner, grids, blocked>>
      /\ Ahead = Todo
  BY <1>1, NextAnchorIs
<1>3. PICK p \in Todo :
         /\ \A q \in Todo : p <= q
         /\ Ahead' = Ahead
         /\ Len(stack') = 3
         /\ stack'[1] = stack[1]
         /\ stack'[2].call = "pass"
         /\ stack'[3] = Frame("anchor", p)
  BY <1>1, NextAnchorIs
<1> DEFINE f == Frame("anchor", p)
<1>4. f.call = "anchor" /\ f.cell = p /\ f.got = <<>>
  BY FrameIs
<1> HIDE DEF f
<1>5. stack'[3] = f
  BY <1>3 DEF f
<1>6. \A q \in Todo : q \in Cells /\ q \in Int /\ q \in anchors
  <2>1. \A q \in Todo : q \in Cells
    BY <1>1, Members DEF StackOK, FramesOK, Proper
  <2> QED BY <1>1, <1>2, <2>1, CellsAreInts DEF Found
<1>7. \A i \in 1 .. 3 : i = 1 \/ i = 2 \/ i = 3
  OBVIOUS
<1>8. Done' = Done
  BY <1>2 DEF Done
<1>9. Valued' = {}
  BY <1>2, <1>3, <1>4, <1>5, <1>7, ValuedMembers
<1>10. Calm
  <2>1. ASSUME NEW q, Kept(q) PROVE Kept(q)' /\ Shown(q)' = Shown(q)
    BY <1>2, <1>9, <2>1, ShownStays DEF Kept
  <2>2. \A q : SameGrid(q)
    BY <1>2 DEF SameGrid
  <2> QED BY <1>2, <1>3, <2>1, <2>2 DEF Calm
<1>11. Found' /\ Tried'
  BY <1>1, <1>2, <1>3, <1>10, MapRests
<1>12. Caching'
  BY <1>1, <1>2, <1>9, <1>10, CachingRests
\* What the first of the anchors reads, no other lays claim to.
<1>13. Free(p)
  <2> SUFFICES ASSUME NEW q \in Reach(p), NEW a \in Ahead, IsArray(a), q \in Claims(a)
               PROVE  FALSE
    BY DEF Free, Ripe
  <2>1. a \in Cells /\ a \in Int /\ p <= a /\ p \in Int
    BY <1>2, <1>3, <1>6
  <2>2. a < p
    BY <1>6, <2>1 DEF Orderly
  <2> QED BY <2>1, <2>2
<1>14. Free(p)' /\ Fed(p, <<>>)'
  BY <1>1, <1>2, <1>3, <1>6, <1>13, RipeStays, NothingFed
<1>15. Calls'
  <2>1. \A i \in 1 .. 2 : i = 1 \/ i = 2
    OBVIOUS
  <2>2. Len(stack') - 1 = 2 /\ Len(stack') > 0
    BY <1>3
  <2> QED BY <1>2, <1>3, <2>1, <2>2 DEF Calls, Evaluates
<1>16. Through'
  <2> SUFFICES ASSUME NEW i \in 1 .. 3, NEW j \in 1 .. 3, i < j, Evaluates(stack[i])' PROVE FALSE
    BY <1>3 DEF Through
  <2>1. i = 3
    BY <1>2, <1>3, <1>7 DEF Evaluates
  <2> QED BY <2>1
<1>17. Reading'
  <2>1. ASSUME NEW i \in 1 .. 3
        PROVE  Ready(stack[i])'
    <3>1. CASE i # 3
      BY <1>2, <1>3, <1>7, <3>1 DEF Ready, Evaluates
    <3>2. CASE i = 3
      <4>1. PICK g : g = stack'[3]
        OBVIOUS
      <4>2. g.call = "anchor" /\ g.cell = p /\ g.got = <<>>
        BY <1>4, <1>5, <4>1
      <4>3. Ready(g)'
        BY <1>14, <4>2 DEF Ready
      <4> QED BY <3>2, <4>1, <4>3
    <3> QED BY <3>1, <3>2
  <2> QED BY <1>3, <1>4, <1>5, <2>1 DEF Reading
<1> QED BY <1>11, <1>12, <1>15, <1>16, <1>17 DEF Ordered

-----------------------------------------------------------------------------
(***************************************************************************)
(* The pass has the result of an anchor.                                   *)
(***************************************************************************)
\* A list that a formula gives is no longer than its spill may reach.
LEMMA ListFits ==
    ASSUME NEW c \in Contents, IsFormula(c), NEW got, IsList(got), Result(c, got).list
    PROVE  /\ c.kind \in {"filter", "sequence", "hidden"}
           /\ IsList(Result(c, got).values)
           /\ Len(Result(c, got).values) <= IF c.kind = "filter" THEN Len(got) ELSE c.size
<1>1. c.kind \in {"sum", "filter", "sequence", "hidden", "sumspill"} /\ c.size \in Nat
  BY SpillAssumption DEF IsFormula, Kinds
<1>2. c.kind \notin {"sum", "sumspill"}
  BY ScalarResult, ScalarShows
<1>3. CASE c.kind = "filter"
  <2>1. Result(c, got).values = Filtered(got)
    BY <1>3, ScalarResult DEF List
  <2> QED BY <1>3, <2>1, FilteredFits
<1>4. CASE c.kind \in {"sequence", "hidden"}
  <2>1. IsList(Result(c, got).values) /\ Len(Result(c, got).values) = c.size
    BY <1>4, ResultIs
  <2>2. Len(Result(c, got).values) <= c.size
    BY <1>1, <2>1
  <2> QED BY <1>4, <2>1, <2>2
<1> QED BY <1>1, <1>2, <1>3, <1>4

\* What the pass does with the result of an anchor.
LEMMA EndAnchorGives ==
    ASSUME IInv, Orderly, Listed, Ordered, EndAnchor, NEW k, k = Top.cell
    PROVE  /\ stack # <<>> /\ Top.call = "anchor" /\ stack' = Rest
           /\ UNCHANGED <<content, cache, dirty, anchors>>
           /\ k \in Cells
           /\ \/ UNCHANGED <<owner, grids, blocked>> /\ ~ IsArray(k)
              \/ /\ IsArray(k)
                 /\ \E values : /\ Register(k, values)
                                /\ Region(k, content[k], Len(values)) \subseteq Claims(k)
<1>1. PICK got, r : got = Top.got /\ r = Result(content[k], got)
  OBVIOUS
<1> DEFINE v == IF r.values = <<>> THEN <<Calc>> ELSE r.values
<1>2. /\ stack # <<>> /\ Top.call = "anchor" /\ UNCHANGED <<content, cache, dirty, anchors>>
      /\ stack' = Rest
      /\ Len(got) = Len(SourcesOf(k))
      /\ IF r.list THEN Register(k, v) ELSE UNCHANGED <<owner, grids, blocked>>
  BY <1>1 DEF EndAnchor, Evaluated, Evaluating, SourcesOf
<1> HIDE DEF v
<1>3. SheetOK /\ StackOK /\ Reading
  BY DEF IInv, Ordered
<1>4. IsFrame(Top) /\ Proper(Top, content) /\ Top = stack[Len(stack)] /\ Len(stack) \in 1 .. Len(stack)
  BY <1>2, <1>3, TopIs DEF StackOK
<1>5. Ready(Top)
  BY <1>3, <1>4 DEF Reading
<1>6. /\ k \in Cells /\ k \in Int /\ IsFormula(content[k]) /\ content[k] \in Contents
      /\ IsList(got) /\ Free(k) /\ Fed(k, got)
  BY <1>1, <1>2, <1>3, <1>4, <1>5, CellsAreInts DEF IsFrame, Proper, Ready, Evaluates, SheetOK
<1>7. CASE r.list
  <2>1. /\ content[k].kind \in {"filter", "sequence", "hidden"}
        /\ IsList(r.values)
        /\ Len(r.values) <= IF content[k].kind = "filter" THEN Len(got) ELSE content[k].size
    BY <1>1, <1>6, <1>7, ListFits
  <2>2. IsArray(k)
    BY <2>1 DEF IsArray
  <2>3. PICK room \in Nat : room = IF content[k].kind = "filter" THEN Len(content[k].from)
                                   ELSE content[k].size
    BY <1>6, SpillAssumption
  <2>4. Len(r.values) \in Nat /\ Len(r.values) <= room
    BY <1>2, <1>3, <1>6, <2>1, <2>3, SourcesAre DEF IsList
  <2>5. Claims(k) = Region(k, content[k], room) \cup {k}
    BY <2>3 DEF Claims
  <2>6. Region(k, content[k], Len(v)) \subseteq Claims(k)
    <3>1. CASE r.values = <<>>
      <4>1. Len(v) = 1
        BY <3>1 DEF v
      <4> QED BY <1>6, <2>5, <4>1, RegionIs
    <3>2. CASE r.values # <<>>
      <4>1. v = r.values
        BY <3>2 DEF v
      <4>2. Region(k, content[k], Len(v)) \subseteq Region(k, content[k], room)
        BY <2>4, <4>1 DEF Region
      <4> QED BY <2>5, <4>2
    <3> QED BY <3>1, <3>2
  <2> QED BY <1>2, <1>6, <1>7, <2>2, <2>6
<1>8. CASE ~ r.list
  <2>1. UNCHANGED <<owner, grids, blocked>>
    BY <1>2, <1>8
  <2>2. content[k].kind \notin {"sequence", "hidden"}
    BY <1>1, <1>6, <1>8, ResultIs
  <2>3. content[k].kind # "filter"
    BY <1>1, <1>8, ScalarResult DEF List
  <2>4. ~ IsArray(k)
    BY <2>2, <2>3 DEF IsArray
  <2> QED BY <1>2, <1>6, <2>1, <2>4
<1> QED BY <1>7, <1>8

LEMMA EndAnchorOrder ==
    ASSUME IInv, Orderly, Listed, Ordered, EndAnchor
    PROVE  Ordered'
<1>1. SheetOK /\ StackOK /\ Calls /\ Through /\ Reading /\ Caching /\ Found /\ Tried
  BY DEF IInv, Ordered
<1>2. PICK k : k = Top.cell
  OBVIOUS
<1>3. /\ stack # <<>> /\ Top.call = "anchor" /\ stack' = Rest
      /\ UNCHANGED <<content, cache, dirty, anchors>>
      /\ k \in Cells
      /\ \/ UNCHANGED <<owner, grids, blocked>> /\ ~ IsArray(k)
         \/ /\ IsArray(k)
            /\ \E values : /\ Register(k, values)
                           /\ Region(k, content[k], Len(values)) \subseteq Claims(k)
  BY <1>2, EndAnchorGives
<1>4. Todo' = Todo /\ Current = {k} /\ Current' = {}
  BY <1>1, <1>2, EndAnchorIs
<1>5. k \in Ahead /\ Ahead' \subseteq Ahead /\ \A a \in Ahead : a = k \/ a \in Ahead'
  BY <1>4 DEF Ahead
<1> DEFINE n == Len(stack)
<1>6. n \in Nat \ {0} /\ Top = stack[n] /\ n \in 1 .. n
  BY <1>1, <1>3, TopIs DEF StackOK
<1>7. PICK w : PoppedTo(w)
  BY <1>1, <1>3, RestGives DEF StackOK
<1>8. Valued' = Valued
  BY <1>1, <1>3, <1>7, ValuedPopped
\* A spill is registered within what the array lays claim to.
<1>9. /\ \A q : q # k => SameGrid(q)
      /\ \A q \in DOMAIN owner' : q \in DOMAIN owner \/ (IsArray(k) /\ q \in Claims(k))
      /\ Done \subseteq Done' /\ Done' \subseteq Done \cup {k}
      /\ k \in Done' => k \in Done \/ IsArray(k)
      /\ IsArray(k) => k \in Done'
      /\ \A a \in DOMAIN grids' : Region(a, content[a], Len(grids'[a])) \subseteq Claims(a)
  <2>1. CASE UNCHANGED <<owner, grids, blocked>> /\ ~ IsArray(k)
    BY <1>1, <2>1 DEF SameGrid, Done, Found
  <2>2. ASSUME IsArray(k), NEW values, Register(k, values),
               Region(k, content[k], Len(values)) \subseteq Claims(k)
        PROVE  /\ \A q : q # k => SameGrid(q)
               /\ \A q \in DOMAIN owner' : q \in DOMAIN owner \/ q \in Claims(k)
               /\ \A a \in DOMAIN grids' : Region(a, content[a], Len(grids'[a])) \subseteq Claims(a)
    <3> DEFINE region == Region(k, content[k], Len(values))
               taken  == Len(values) > 1 /\ \E q \in region : Taken(k, q)
    <3>1. CASE taken
      <4>1. UNCHANGED <<owner, grids>>
        BY <2>2, <3>1, RegisterIs
      <4> QED BY <1>1, <4>1 DEF SameGrid, Found
    <3>2. CASE ~ taken
      <4>1. /\ DOMAIN grids' = DOMAIN grids \cup {k}
            /\ grids'[k] = values
            /\ \A d \in DOMAIN grids : d # k => grids'[d] = grids[d]
            /\ DOMAIN owner' = DOMAIN owner \cup region
        BY <2>2, <3>2, RegisterIs
      <4> HIDE DEF taken
      <4>2. \A q : q # k => SameGrid(q)
        BY <4>1 DEF SameGrid
      <4>3. \A q \in DOMAIN owner' : q \in DOMAIN owner \/ q \in Claims(k)
        BY <2>2, <4>1
      <4>4. \A a \in DOMAIN grids' : Region(a, content[a], Len(grids'[a])) \subseteq Claims(a)
        BY <1>1, <2>2, <4>1 DEF Found
      <4> QED BY <4>2, <4>3, <4>4
    <3> QED BY <3>1, <3>2
  <2>3. ASSUME NEW values, Register(k, values) PROVE Done' = Done \cup {k}
    BY <2>3, RegisterAdds
  <2> QED BY <1>3, <2>1, <2>2, <2>3
<1>10. Calm
  <2>1. ASSUME NEW q, Ripe(q), Kept(q) PROVE Kept(q)' /\ Shown(q)' = Shown(q)
    <3>1. IsArray(k) => q \notin Claims(k)
      BY <1>5, <2>1 DEF Ripe
    <3>2. q \notin DOMAIN cache => q \notin DOMAIN owner'
      BY <1>9, <2>1, <3>1 DEF Kept
    <3>3. q \notin Valued'
      BY <1>8, <2>1 DEF Kept
    <3> QED BY <1>3, <2>1, <3>2, <3>3, ShownStays
  <2>2. ASSUME NEW q, IsArray(q) => q \notin Ahead PROVE SameGrid(q)
    <3>1. CASE q # k
      BY <1>9, <3>1
    <3>2. CASE q = k
      <4>1. UNCHANGED <<owner, grids, blocked>>
        BY <1>3, <1>5, <2>2, <3>2
      <4> QED BY <4>1 DEF SameGrid
    <3> QED BY <3>1, <3>2
  <2> QED BY <1>3, <1>5, <2>1, <2>2 DEF Calm
<1>11. Found'
  <2>1. \A a \in Done' : IsArray(a)'
    BY <1>1, <1>3, <1>9, ReadsRest DEF Found
  <2>2. \A a \in DOMAIN grids' : Region(a, content'[a], Len(grids'[a])) \subseteq Claims(a)'
    BY <1>3, <1>9, ReadsRest
  <2>3. Ahead' \subseteq anchors'
    BY <1>1, <1>3, <1>5 DEF Found
  <2> QED BY <2>1, <2>2, <2>3 DEF Found, Region, Place
<1>12. Tried'
  <2> SUFFICES ASSUME NEW a \in Cells, IsArray(a)
               PROVE  a \in Done' \cup Ahead'
    BY <1>3, ReadsRest DEF Tried
  <2> QED BY <1>1, <1>5, <1>9 DEF Tried
<1>13. Caching'
  BY <1>1, <1>3, <1>8, <1>10, CachingRests
<1>14. Calls' /\ Through'
  BY <1>1, <1>3, <1>7, CallsPopped
<1>15. n > 1 => stack[n - 1].call = "pass"
  BY <1>1, <1>3, <1>6 DEF StackOK, Nested
<1>16. Done' \subseteq Done \cup Ahead
  BY <1>5, <1>9
<1>17. /\ n > 1 => ~ Evaluates(stack[n - 1])
       /\ n > 1 => stack[n - 1].call # "ask"
  BY <1>15 DEF Evaluates
<1>18. Reading'
  BY <1>1, <1>3, <1>7, <1>10, <1>11, <1>16, <1>17, ReadingPopped
<1> QED BY <1>11, <1>12, <1>13, <1>14, <1>18 DEF Ordered

-----------------------------------------------------------------------------
(***************************************************************************)
(* The pass begins.                                                        *)
(***************************************************************************)
LEMMA StartPassOrder ==
    ASSUME IInv, Orderly, Listed, Unread, StartPass
    PROVE  Ordered' /\ ~ dirty'
<1> DEFINE f == [Frame("pass", 0) EXCEPT !.todo = anchors]
<1>1. /\ stack # <<>> /\ dirty /\ ~ dirty'
      /\ DOMAIN grids' = {} /\ blocked' = {}
      /\ stack' = IF anchors = {} THEN Marked ELSE Append(Marked, f)
      /\ UNCHANGED <<content, cache, anchors>>
  BY DEF StartPass, NeedsMap, Marked
<1>2. IsFrame(f) /\ f.call = "pass" /\ f.todo = anchors
  BY PassFrame
<1> HIDE DEF f
<1>3. DOMAIN cache' = {} /\ Len(stack) <= 1 /\ \A i \in 1 .. Len(stack) : stack[i].call = "ask"
  BY <1>1 DEF Unread
<1>4. FramesOK /\ Len(stack) = 1 /\ stack[1].call = "ask" /\ stack[1].todo = {}
  <2>1. FramesOK /\ Len(stack) \in Nat \ {0}
    BY <1>1, TopIs DEF IInv, StackOK
  <2>2. \A m \in Nat \ {0} : m <= 1 => m = 1 /\ 1 \in 1 .. m
    OBVIOUS
  <2>3. Len(stack) = 1 /\ 1 \in 1 .. Len(stack)
    BY <1>3, <2>1, <2>2, Zenon
  <2> QED BY <1>3, <2>1, <2>3 DEF FramesOK, Proper
\* The outermost read alone, or under the pass.
<1>5. /\ stack'[1].call = "ask" /\ stack'[1].todo = {}
      /\ anchors = {} => Len(stack') = 1
      /\ anchors # {} => Len(stack') = 2 /\ stack'[2] = f
  <2>1. 1 \in 1 .. Len(stack)
    BY <1>4
  <2>2. CASE anchors = {}
    <3>1. Len(stack') = Len(stack) /\ Keeps(stack[1], stack'[1])
      BY <1>1, <1>4, <2>1, <2>2, MarkedIs
    <3> QED BY <1>4, <2>2, <3>1 DEF Keeps
  <2>3. CASE anchors # {}
    <3>1. Pushes(f)
      BY <1>1, <1>2, <1>4, <2>3, MarkedPushes
    <3>2. Len(stack') = Len(stack) + 1 /\ Keeps(stack[1], stack'[1]) /\ stack'[Len(stack) + 1] = f
      BY <2>1, <3>1 DEF Pushes
    <3> QED BY <1>4, <2>3, <3>2 DEF Keeps
  <2> QED BY <2>2, <2>3
<1>6. Len(stack') \in {1, 2} /\ \A i \in 1 .. Len(stack') : i = 1 \/ (i = 2 /\ anchors # {})
  <2>1. /\ \A i \in 1 .. 1 : i = 1
        /\ \A i \in 1 .. 2 : i = 1 \/ i = 2
    OBVIOUS
  <2>2. CASE anchors = {}
    <3>1. Len(stack') = 1
      BY <1>5, <2>2
    <3> QED BY <2>1, <3>1
  <2>3. CASE anchors # {}
    <3>1. Len(stack') = 2
      BY <1>5, <2>3
    <3> QED BY <2>1, <2>3, <3>1
  <2> QED BY <2>2, <2>3
<1>7. Todo' = anchors
  <2>1. ASSUME NEW q, q \in Todo' PROVE q \in anchors
    BY <1>2, <1>4, <1>5, <1>6, <2>1, Members
  <2>2. ASSUME NEW q, q \in anchors PROVE q \in Todo'
    <3>1. 2 \in 1 .. Len(stack')
      BY <1>5, <2>2
    <3> QED BY <1>2, <1>5, <2>2, <3>1, Members
  <2> QED BY <2>1, <2>2
<1>8. Current' = {}
  <2>1. \A i \in 1 .. Len(stack') : stack'[i].call # "anchor"
    BY <1>2, <1>4, <1>5, <1>6
  <2> QED BY <2>1, Members
<1>9. Ahead' = anchors /\ Done' = {}
  BY <1>1, <1>7, <1>8 DEF Ahead, Done
<1>10. Calls'
  <2>1. stack'[1].call = "ask"
    BY <1>5
  <2>2. ASSUME NEW i \in 1 .. Len(stack') - 1 PROVE i = 1 /\ stack'[2].call = "pass"
    <3>1. i = 1 /\ anchors # {}
      BY <1>5, <1>6
    <3> QED BY <1>2, <1>5, <3>1
  <2> QED BY <2>1, <2>2 DEF Calls, Evaluates
<1>11. \A i \in 1 .. Len(stack') : stack'[i].call \in {"ask", "pass"}
  BY <1>2, <1>4, <1>5, <1>6
<1>12. Through'
  BY <1>11 DEF Through, Evaluates
<1>13. Reading'
  <2>1. \A i \in 1 .. Len(stack') : Ready(stack[i])'
    BY <1>11 DEF Ready, Evaluates
  <2>2. ASSUME stack'[Len(stack')].call = "ask" PROVE \A q : Ripe(q)' /\ Free(q)'
    <3>1. Ahead' = {}
      BY <1>2, <1>5, <1>9, <2>2
    <3> QED BY <3>1 DEF Ripe, Free
  <2> QED BY <2>1, <2>2 DEF Reading
<1>14. Caching'
  BY <1>3 DEF Caching
<1>15. Found'
  BY <1>1, <1>9 DEF Found
<1>16. Tried'
  BY <1>1, <1>9, ArrayReadsOthers, ReadsRest DEF Tried
<1> QED BY <1>1, <1>10, <1>12, <1>13, <1>14, <1>15, <1>16 DEF Ordered

\* Nothing happens.
LEMMA StutterOrder ==
    ASSUME IInv, Ordered, UNCHANGED vars
    PROVE  Ordered'
<1>1. SheetOK /\ StackOK /\ Calls /\ Through /\ Reading /\ Caching /\ Found /\ Tried
  BY DEF IInv, Ordered
<1>2. UNCHANGED <<content, cache, dirty, anchors, owner, grids, blocked, stack>>
  BY DEF vars
<1>3. Ahead' = Ahead /\ Valued' = Valued /\ Done' = Done
  BY <1>2 DEF Ahead, Todo, Current, Valued, Done
<1>4. Calm
  <2>1. ASSUME NEW q, Kept(q) PROVE Kept(q)' /\ Shown(q)' = Shown(q)
    BY <1>2, <1>3, <2>1, ShownStays DEF Kept
  <2>2. \A q : SameGrid(q)
    BY <1>2 DEF SameGrid
  <2> QED BY <1>2, <1>3, <2>1, <2>2 DEF Calm
<1>5. Found' /\ Tried'
  BY <1>1, <1>2, <1>3, <1>4, MapRests
<1>6. Caching'
  BY <1>1, <1>2, <1>3, <1>4, CachingRests
<1>7. Calls' /\ Through'
  BY <1>1, <1>2, ReadsRest DEF Calls, Through, Waits, Evaluates
<1>8. Reading'
  <2>1. ASSUME NEW i \in 1 .. Len(stack) PROVE Ready(stack[i])'
    <3>1. PICK f : f = stack[i]
      OBVIOUS
    <3>2. IsFrame(f) /\ Proper(f, content) /\ Ready(f)
      BY <1>1, <3>1 DEF StackOK, FramesOK, Reading
    <3>3. Ready(f)'
      BY <1>1, <1>3, <1>4, <1>5, <3>2, ReadyStays
    <3> QED BY <1>2, <3>1, <3>3
  <2>2. \A p : (Ripe(p) => Ripe(p)') /\ (Free(p) => Free(p)')
    BY <1>2, <1>3, RipeStays
  <2> QED BY <1>1, <1>2, <2>1, <2>2 DEF Reading
<1> QED BY <1>5, <1>6, <1>7, <1>8 DEF Ordered

-----------------------------------------------------------------------------
(***************************************************************************)
(* The sheet is edited, and reads make their way.                          *)
(***************************************************************************)
LEMMA OnlyEditChanges ==
    ASSUME [Next]_vars, ~ (\E p \in Cells, c \in Contents : Edit(p, c))
    PROVE  UNCHANGED content /\ anchors \subseteq anchors'
BY DEF Next, vars, Work, Read, StartPass, AnswerCached, AnswerEmpty, AnswerPlain, AnswerAnchor,
       AnswerCircular, Compute, ReadSource, Deliver, NextAnchor, EndAnchor, EndPass

LEMMA EditUnread ==
    ASSUME SheetOK, Listed, NEW p \in Cells, NEW c \in Contents, Edit(p, c)
    PROVE  OInv'
<1>1. /\ stack' = <<>> /\ cache' = <<>> /\ dirty' = TRUE
      /\ content' = [content EXCEPT ![p] = c]
      /\ anchors' = IF IsCandidate(c) THEN anchors \cup {p} ELSE anchors \ {p}
  BY DEF Edit
<1>2. Len(stack') = 0
  BY <1>1, EmptyIsList
<1>3. Listed'
  <2>1. content'[p] = c /\ \A q \in Cells : q # p => content'[q] = content[q]
    BY <1>1 DEF SheetOK
  <2> QED BY <1>1, <2>1 DEF Listed, IsCandidate
<1>4. Unread'
  BY <1>1, <1>2 DEF Unread
<1> QED BY <1>1, <1>3, <1>4 DEF OInv

\* Before the pass no step is taken but a read, and the pass.
LEMMA UnreadSteps ==
    ASSUME StackOK, Orderly, dirty, Unread, [Next]_vars,
           ~ (\E p \in Cells, c \in Contents : Edit(p, c))
    PROVE  \/ StartPass
           \/ /\ UNCHANGED <<cache, dirty>>
              /\ Len(stack') <= 1
              /\ \A i \in 1 .. Len(stack') : stack'[i].call = "ask" /\ ~ stack'[i].synced
<1>1. Len(stack) <= 1 /\ \A i \in 1 .. Len(stack) : stack[i].call = "ask" /\ ~ stack[i].synced
  BY DEF Unread
<1>2. CASE UNCHANGED vars
  BY <1>1, <1>2 DEF vars
<1>3. ASSUME NEW p \in Visible, Read(p)
      PROVE  /\ UNCHANGED <<cache, dirty>>
             /\ Len(stack') <= 1
             /\ \A i \in 1 .. Len(stack') : stack'[i].call = "ask" /\ ~ stack'[i].synced
  <2> DEFINE f == Frame("ask", p)
  <2>1. stack' = <<f>> /\ UNCHANGED <<cache, dirty>>
    BY <1>3 DEF Read
  <2>2. f.call = "ask" /\ ~ f.synced
    BY DEF Frame
  <2> HIDE DEF f
  <2>3. Len(stack') = 1 /\ stack'[1] = f
    BY <2>1
  <2>4. \A i \in 1 .. Len(stack') : i = 1
    BY <2>3
  <2> QED BY <2>1, <2>2, <2>3, <2>4
<1>4. CASE Work
  <2>1. stack # <<>> => Top.call = "ask" /\ ~ Top.synced /\ ~ Spilling
    <3> SUFFICES ASSUME stack # <<>> PROVE Top.call = "ask" /\ ~ Top.synced /\ ~ Spilling
      OBVIOUS
    <3>1. Len(stack) \in 1 .. Len(stack) /\ Top = stack[Len(stack)]
      BY TopIs DEF StackOK
    <3> QED BY <1>1, <3>1 DEF Spilling
  <2>2. stack # <<>> => NeedsMap
    BY <2>1 DEF NeedsMap
  <2>3. ~ Asked /\ ~ Evaluating
    BY <2>2 DEF Asked, Evaluating
  <2>4. ~ InPass
    BY <2>1 DEF InPass
  <2> QED BY <1>4, <2>3, <2>4 DEF Work, AnswerCached, AnswerEmpty, AnswerPlain, AnswerAnchor,
                 AnswerCircular, Computable, Compute, ReadSource, Deliver, Evaluated, NextAnchor,
                 EndAnchor, EndPass
<1> QED BY <1>2, <1>3, <1>4 DEF Next

\* After it every step keeps what is settled.
LEMMA OrderedSteps ==
    ASSUME IInv, Orderly, Listed, ~ dirty, Ordered, [Next]_vars,
           ~ (\E p \in Cells, c \in Contents : Edit(p, c))
    PROVE  Ordered' /\ UNCHANGED dirty
<1>1. CASE UNCHANGED vars
  BY <1>1, StutterOrder DEF vars
<1>2. ASSUME NEW p \in Visible, Read(p)
      PROVE  Ordered' /\ UNCHANGED dirty
  BY <1>2, ReadOrder DEF Read
<1>3. ~ StartPass
  BY DEF StartPass, NeedsMap
<1>4. CASE AnswerCached \/ AnswerEmpty \/ AnswerPlain \/ AnswerAnchor \/ AnswerCircular
  <2>1. UNCHANGED dirty
    BY <1>4 DEF AnswerCached, AnswerEmpty, AnswerPlain, AnswerAnchor, AnswerCircular
  <2> QED BY <1>4, <2>1, AnswersOrder
<1>5. CASE Compute
  BY <1>5, ComputeOrder DEF Compute
<1>6. CASE ReadSource
  BY <1>6, ReadSourceOrder DEF ReadSource
<1>7. CASE Deliver
  BY <1>7, DeliverOrder
<1>8. CASE NextAnchor
  BY <1>8, NextAnchorOrder DEF NextAnchor
<1>9. CASE EndAnchor
  BY <1>9, EndAnchorOrder DEF EndAnchor
<1>10. CASE EndPass
  BY <1>10, EndPassOrder DEF EndPass
<1> QED BY <1>1, <1>2, <1>3, <1>4, <1>5, <1>6, <1>7, <1>8, <1>9, <1>10 DEF Next, Work

LEMMA OrderStep ==
    ASSUME IInv, OInv, [Next]_vars
    PROVE  OInv'
<1>1. SheetOK /\ StackOK /\ Listed /\ Unread /\ (Orderly /\ ~ dirty => Ordered)
  BY DEF IInv, OInv
<1>2. CASE \E p \in Cells, c \in Contents : Edit(p, c)
  BY <1>1, <1>2, EditUnread
<1>3. CASE ~ (\E p \in Cells, c \in Contents : Edit(p, c))
  <2>1. UNCHANGED content /\ anchors \subseteq anchors'
    BY <1>3, OnlyEditChanges
  <2>2. Listed'
    BY <1>1, <2>1 DEF Listed, IsCandidate
  <2>3. ASSUME Orderly'
        PROVE  /\ ~ dirty' => Ordered'
               /\ dirty' => /\ cache' = <<>> /\ Len(stack') <= 1
                            /\ \A i \in 1 .. Len(stack') : stack'[i].call = "ask" /\ ~ stack'[i].synced
    <3>1. Orderly
      BY <2>1, <2>3, OrderlyBefore
    <3>2. CASE dirty
      <4>1. cache = <<>>
        BY <1>1, <3>1, <3>2 DEF Unread
      <4>2. CASE StartPass
        BY <1>1, <3>1, <4>2, StartPassOrder
      <4>3. CASE ~ StartPass
        <5>1. /\ UNCHANGED <<cache, dirty>> /\ Len(stack') <= 1
              /\ \A i \in 1 .. Len(stack') : stack'[i].call = "ask" /\ ~ stack'[i].synced
          BY <1>1, <1>3, <3>1, <3>2, <4>3, UnreadSteps
        <5> QED BY <3>2, <4>1, <5>1
      <4> QED BY <4>2, <4>3
    <3>3. CASE ~ dirty
      <4>1. Ordered' /\ UNCHANGED dirty
        BY <1>1, <1>3, <3>1, <3>3, OrderedSteps
      <4> QED BY <3>3, <4>1
    <3> QED BY <3>2, <3>3
  <2>4. Unread'
    BY <2>3 DEF Unread
  <2>5. Orderly' /\ ~ dirty' => Ordered'
    BY <2>3
  <2> QED BY <2>2, <2>4, <2>5 DEF OInv
<1> QED BY <1>2, <1>3

\* While the pass has arrays to come, no value is cached that one of them may
\* yet change, in sheets whose arrays read only arrays above them
\* (Sheet._sync_spills, Sheet.get_value, Sheet._compute_formula).
THEOREM OrderInvariant == Spec => []OInv
<1>1. Init => OInv
  <2> SUFFICES ASSUME Init PROVE OInv
    OBVIOUS
  <2>1. /\ cache = <<>> /\ dirty = TRUE /\ stack = <<>>
        /\ anchors = {p \in Cells : IsCandidate(content[p])}
    BY DEF Init
  <2>2. Len(stack) = 0
    BY <2>1, EmptyIsList
  <2>3. Unread
    BY <2>1, <2>2 DEF Unread
  <2> QED BY <2>1, <2>3 DEF OInv, Listed
<1>2. IInv /\ OInv /\ [Next]_vars => OInv'
  BY OrderStep
<1> QED BY <1>1, <1>2, SpillInvariant, PTL DEF Spec

\* Whatever cell is read first, a scalar formula that does not depend on itself
\* shows what the cells it reads make of it, spilled ones among them, in sheets
\* whose arrays read only arrays above them (Sheet.get_value, which has
\* Sheet._sync_spills run first).
THEOREM OrderlyAgree == Spec => []OrderlyValuesAgree
<1>1. OInv => OrderlyValuesAgree
  <2> SUFFICES ASSUME OInv, Settled, Orderly, NEW p \in DOMAIN cache, Acyclic(p)
               PROVE  Agrees(p)
    BY DEF OrderlyValuesAgree
  <2>1. Caching
    BY DEF OInv, Ordered, Settled
  <2>2. p \notin Reach(p)
    BY DEF Acyclic
  <2> QED BY <2>1, <2>2 DEF Caching, Justified
<1> QED BY <1>1, OrderInvariant, PTL

=============================================================================
