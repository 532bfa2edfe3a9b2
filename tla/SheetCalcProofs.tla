---------------------------- MODULE SheetCalcProofs ----------------------------
(***************************************************************************)
(* Proofs about SheetCalc, for every number of sheets and cells, every set *)
(* of formulas and every recursion limit: types, the guard against         *)
(* re-entry, the consistency of the cache, the meaning of #CIRC!, and that *)
(* reading does not revise what was read.                                  *)
(***************************************************************************)
EXTENDS SheetCalc, TLAPS, SequenceTheorems

Frames == [key : Key, vals : Seq(Values)]

\* A frame computes a formula and has read some of its references.
FrameOK(f) == /\ IsFormula(content[f.key])
              /\ Len(f.vals) <= Len(content[f.key].args)

\* A frame with another one above it waits for the cell of that frame.
WaitsFor(f, k) ==
    /\ Wants(content[f.key], f.vals)
    /\ LET ref == content[f.key].args[Len(f.vals) + 1]
       IN  ~ Missing(f.key, ref) /\ k = Target(f.key, ref)

Chain == \A i \in 1 .. Len(stack) - 1 : WaitsFor(stack[i], stack[i + 1].key)

\* A cell under computation has no cached value but the #CIRC! of a cycle.
ComputingUncached == \A i \in DOMAIN stack : cache[stack[i].key] \in {NotCached, CIRC}

\* The guard _computing: no cell is being computed twice at a time.
NoReentry == \A i, j \in DOMAIN stack : stack[i].key = stack[j].key => i = j

StackIInv == /\ NoReentry
             /\ \A i \in DOMAIN stack : FrameOK(stack[i])
             /\ Chain
             /\ ComputingUncached

\* What a formula has read is what it would see now.
Current(f) ==
    \A j \in 1 .. Len(f.vals) :
        LET ref == content[f.key].args[j]
        IN  Visible(f.key, ref) /\ f.vals[j] = Sees(f.key, ref)

Sound == ~ overflowed /\ since = "edit"

FramesCurrent == \A i \in DOMAIN stack :
    Circular(stack[i].key) \/ (cache[stack[i].key] = NotCached /\ Current(stack[i]))

CircIsCircular == \A k \in Key : cache[k] = CIRC => Circular(k)

ValueIInv == FramesCurrent /\ CircIsCircular /\ AllJustified

IInv == TypeOK /\ StackIInv /\ (Sound => ValueIInv)

-----------------------------------------------------------------------------
\* Stacks: the frame below the top gets a value; the top goes.

\* A frame with other values is a frame of the same cell.
LEMMA RecordWithVals ==
    ASSUME NEW f \in Frames, NEW w \in Seq(Values)
    PROVE  LET g == [f EXCEPT !.vals = w]
           IN  g \in Frames /\ g.key = f.key /\ g.vals = w
BY DEF Frames

\* Feeding a value to the top of a stack changes the values of the top only.
LEMMA FeedType ==
    ASSUME NEW s \in Seq(Frames), s # <<>>, NEW v \in Values
    PROVE  /\ Feed(s, v) \in Seq(Frames)
           /\ Len(Feed(s, v)) = Len(s)
           /\ \A i \in 1 .. Len(s) : Feed(s, v)[i].key = s[i].key
           /\ \A i \in 1 .. Len(s) - 1 : Feed(s, v)[i] = s[i]
           /\ Feed(s, v)[Len(s)].vals = Append(s[Len(s)].vals, v)
<1> DEFINE n == Len(s)
           top == s[n]
           fed == [top EXCEPT !.vals = Append(@, v)]
<1>1. n \in Nat \ {0} /\ \A i \in 1 .. n : s[i] \in Frames
  BY EmptySeq, ElementOfSeq
<1>2. DOMAIN s = 1 .. n /\ s \in [1 .. n -> Frames]
  BY LenProperties
<1>3. top \in Frames
  BY <1>1
<1>4. fed \in Frames /\ fed.key = top.key /\ fed.vals = Append(top.vals, v)
  <2>1. top.vals \in Seq(Values)
    BY <1>3 DEF Frames
  <2>2. Append(top.vals, v) \in Seq(Values)
    BY <2>1, AppendProperties
  <2>3. QED BY <1>3, <2>2, RecordWithVals
<1>5. Feed(s, v) = [s EXCEPT ![n] = fed]
  BY DEF Feed
<1> HIDE DEF n, top, fed
<1>6. Feed(s, v) \in [1 .. n -> Frames]
  BY <1>2, <1>4, <1>5
<1>7. Feed(s, v) \in Seq(Frames) /\ Len(Feed(s, v)) = n
  BY <1>1, <1>6, IsASeq, LenProperties
<1>8. \A i \in 1 .. n : Feed(s, v)[i] = IF i = n THEN fed ELSE s[i]
  BY <1>2, <1>5
<1>9. QED BY <1>1, <1>4, <1>7, <1>8 DEF n, top

Callers(s) == SubSeq(s, 1, Len(s) - 1)

\* The stack without its top has the frames below it.
LEMMA CallersType ==
    ASSUME NEW s \in Seq(Frames), s # <<>>
    PROVE  /\ Callers(s) \in Seq(Frames)
           /\ Len(Callers(s)) = Len(s) - 1
           /\ \A i \in 1 .. Len(s) - 1 : Callers(s)[i] = s[i]
<1> DEFINE n == Len(s) - 1
<1>1. n \in Nat /\ \A i \in 1 .. n : s[i] \in Frames
  BY EmptySeq, ElementOfSeq
<1> DEFINE p == SubSeq(s, 1, n)
<1> HIDE DEF n
<1>2. /\ p \in Seq(Frames)
      /\ Len(p) = IF 1 <= n THEN n - 1 + 1 ELSE 0
      /\ \A i \in 1 .. n - 1 + 1 : p[i] = s[1 + i - 1]
  BY <1>1, SubSeqProperties
<1>3. /\ p \in Seq(Frames) /\ Len(p) = n
      /\ \A i \in 1 .. n : p[i] = s[i]
  BY <1>1, <1>2
<1>4. QED BY <1>3 DEF n, Callers

\* The stack after the innermost formula has delivered its value.
Delivered(v) == IF Callers(stack) = <<>> THEN <<>> ELSE Feed(Callers(stack), v)

\* After a delivery the top is gone and the frame below has one value more.
LEMMA DeliveredType ==
    ASSUME stack \in Seq(Frames), stack # <<>>, NEW v \in Values
    PROVE  /\ Delivered(v) \in Seq(Frames)
           /\ Len(Delivered(v)) = Len(stack) - 1
           /\ \A i \in 1 .. Len(stack) - 1 : Delivered(v)[i].key = stack[i].key
           /\ \A i \in 1 .. Len(stack) - 2 : Delivered(v)[i] = stack[i]
           /\ Len(stack) > 1 => Delivered(v)[Len(stack) - 1].vals
                                  = Append(stack[Len(stack) - 1].vals, v)
<1>1. /\ Callers(stack) \in Seq(Frames)
      /\ Len(Callers(stack)) = Len(stack) - 1
      /\ \A i \in 1 .. Len(stack) - 1 : Callers(stack)[i] = stack[i]
      /\ Len(stack) \in Nat \ {0}
  BY CallersType, EmptySeq, LenProperties
<1>2. CASE Callers(stack) = <<>>
  <2>1. Len(stack) = 1 /\ Delivered(v) = <<>>
    BY <1>1, <1>2, EmptySeq DEF Delivered
  <2>2. QED BY <2>1, EmptySeq
<1>3. CASE Callers(stack) # <<>>
  <2>1. Len(stack) - 1 \in Nat \ {0}
    BY <1>1, <1>3, EmptySeq
  <2>2. Delivered(v) = Feed(Callers(stack), v)
    BY <1>3 DEF Delivered
  <2> DEFINE n == Len(stack) - 1
             c == Callers(stack)
             d == Delivered(v)
  <2>3. /\ d \in Seq(Frames) /\ Len(d) = Len(c)
        /\ \A i \in 1 .. Len(c) : d[i].key = c[i].key
        /\ \A i \in 1 .. Len(c) - 1 : d[i] = c[i]
        /\ d[Len(c)].vals = Append(c[Len(c)].vals, v)
    <3> HIDE DEF Callers
    <3>1. d = Feed(c, v)
      BY <2>2
    <3> HIDE DEF d
    <3>2. c \in Seq(Frames) /\ c # <<>>
      BY <1>1, <1>3
    <3> HIDE DEF c
    <3>3. QED BY ONLY <3>1, <3>2, FeedType
  <2>4. \A i \in 1 .. n : d[i].key = stack[i].key
    BY <1>1, <2>3
  <2>5. \A i \in 1 .. n - 1 : d[i] = stack[i]
    BY <1>1, <2>1, <2>3
  <2>6. n > 0 => d[n].vals = Append(stack[n].vals, v)
    BY <1>1, <2>1, <2>3
  <2>7. QED BY <1>1, <2>1, <2>3, <2>4, <2>5, <2>6, SMTT(30)
<1>4. QED BY <1>2, <1>3

-----------------------------------------------------------------------------
\* Formulas and their values.

\* What a cell holds is typed, and a formula has as many references as its kind.
LEMMA ContentType ==
    ASSUME TypeOK, NEW k \in Key
    PROVE  /\ content[k] \in Contents
           /\ content[k].args \in Seq(Refs)
           /\ content[k].text \in Texts \cup {None}
           /\ Len(content[k].args) = Arity(content[k].op)
           /\ \A i \in 1 .. Len(content[k].args) : content[k].args[i] \in Refs
<1>1. content[k] \in Contents
  BY CalcAssumption DEF TypeOK
<1>2. content[k].args \in Seq(Refs) /\ content[k].text \in Texts \cup {None}
  BY <1>1 DEF Contents
<1>3. QED BY <1>1, <1>2, ElementOfSeq DEF Contents

\* A formula never asks for more references than it has.
LEMMA WantsInRange ==
    ASSUME TypeOK, NEW k \in Key, NEW vals \in Seq(Values), Wants(content[k], vals)
    PROVE  Len(vals) + 1 \in 1 .. Len(content[k].args)
<1>1. Len(vals) \in Nat /\ Len(content[k].args) = Arity(content[k].op)
  BY ContentType, LenProperties
<1>2. Len(content[k].args) \in Nat
  BY ContentType, LenProperties
<1>3. CASE content[k].op = "iferror"
  <2>1. Arity(content[k].op) = 2
    BY <1>3 DEF Arity
  <2>2. vals = <<>> \/ Len(vals) = 1
    BY <1>3 DEF Wants, IsError
  <2>3. Len(vals) < 2
    <3>1. vals = <<>> => Len(vals) = 0
      BY EmptySeq
    <3>2. Len(vals) = 0 \/ Len(vals) = 1
      BY <2>2, <3>1
    <3>3. QED BY <3>2
  <2>4. QED BY <1>1, <2>1, <2>3
<1>4. CASE content[k].op # "iferror"
  BY <1>1, <1>2, <1>4 DEF Wants
<1>5. QED BY <1>3, <1>4

\* A formula that asks for no more has read what its result needs.
LEMMA ReadEnough ==
    ASSUME TypeOK, NEW k \in Key, NEW vals \in Seq(Values), ~ Wants(content[k], vals)
    PROVE  /\ content[k].op = "copy" => Len(vals) >= 1
           /\ content[k].op = "join" => Len(vals) >= 2
           /\ content[k].op = "iferror" =>
                  Len(vals) >= 1 /\ (IsError(vals[1]) => Len(vals) >= 2)
<1>1. Len(vals) \in Nat /\ Len(content[k].args) = Arity(content[k].op)
  BY ContentType, LenProperties
<1>2. CASE content[k].op = "copy"
  BY <1>1, <1>2 DEF Wants, Arity
<1>3. CASE content[k].op = "join"
  BY <1>1, <1>3 DEF Wants, Arity
<1>4. CASE content[k].op = "iferror"
  <2>1. vals # <<>>
    BY <1>4 DEF Wants, IsError
  <2>2. Len(vals) # 0
    BY <2>1, EmptySeq
  <2>3. ~ (Len(vals) = 1 /\ IsError(vals[1]))
    BY <1>4 DEF Wants, IsError
  <2>4. Len(vals) >= 1 /\ (IsError(vals[1]) => Len(vals) >= 2)
    <3> DEFINE n == Len(vals)
    <3>1. n \in Nat /\ n # 0
      BY <2>2, LenProperties
    <3> HIDE DEF n
    <3>2. n >= 1 /\ (n = 1 \/ n >= 2)
      BY <3>1
    <3>3. QED BY <2>3, <3>2 DEF n
  <2>5. QED BY <1>4, <2>4
<1>5. QED BY <1>2, <1>3, <1>4

\* Joining values gives a value, and #CIRC! only from #CIRC!.
LEMMA JoinType ==
    ASSUME NEW v \in Values, NEW w \in Values
    PROVE  Join(v, w) \in Values /\ (Join(v, w) = CIRC => v = CIRC \/ w = CIRC)
<1>1. CASE IsError(v) \/ IsError(w)
  BY <1>1 DEF Join
<1>2. CASE ~ IsError(v) /\ ~ IsError(w)
  <2>1. AsText(v) \in Texts /\ AsText(w) \in Texts
    BY <1>2, EmptySeq DEF AsText, Values, IsError, Texts
  <2>2. AsText(v) \o AsText(w) \in Texts
    BY <2>1, ConcatProperties DEF Texts
  <2>3. Join(v, w) \in Texts
    BY <1>2, <2>2 DEF Join
  <2>4. QED BY <2>3, CalcAssumption DEF Values, Errors
<1>3. QED BY <1>1, <1>2

\* A result is a value, and it is #CIRC! only when a value that was read is.
LEMMA ResultsType ==
    ASSUME TypeOK, NEW k \in Key, NEW vals \in Seq(Values), ~ Wants(content[k], vals),
           NEW v \in Results(content[k], vals)
    PROVE  v \in Values /\ (v = CIRC => \E i \in 1 .. Len(vals) : vals[i] = CIRC)
<1>1. Len(vals) \in Nat /\ \A i \in 1 .. Len(vals) : vals[i] \in Values
  BY LenProperties, ElementOfSeq
<1>2. CASE content[k].op = "copy"
  BY <1>1, <1>2, ReadEnough DEF Results
<1>3. CASE content[k].op = "join"
  <2>1. Len(vals) >= 2 /\ v = Join(vals[1], vals[2])
    BY <1>3, ReadEnough DEF Results
  <2>2. vals[1] \in Values /\ vals[2] \in Values
    BY <1>1, <2>1
  <2>3. v \in Values /\ (v = CIRC => vals[1] = CIRC \/ vals[2] = CIRC)
    BY <2>1, <2>2, JoinType
  <2>4. QED BY <1>1, <2>1, <2>3
<1>4. CASE content[k].op = "iferror"
  <2>1. \/ IsError(vals[1]) /\ Len(vals) >= 2 /\ v = vals[2]
        \/ Len(vals) >= 1 /\ v = vals[1]
    BY <1>4, ReadEnough DEF Results
  <2>2. QED BY <1>1, <2>1
<1>5. CASE content[k].op = "rand"
  <2>1. v \in Texts
    BY <1>5, CalcAssumption DEF Results
  <2>2. QED BY <2>1, CalcAssumption DEF Values, Errors
<1>6. CASE content[k].op \notin {"copy", "join", "iferror", "rand"}
  <2>1. v = NAME
    BY <1>6 DEF Results
  <2>2. QED BY <2>1, CalcAssumption DEF Values, Errors
<1>7. QED BY <1>2, <1>3, <1>4, <1>5, <1>6

\* The cell behind a reference, if its sheet is there.
LEMMA TargetType ==
    ASSUME TypeOK, NEW k \in Key, NEW ref \in Refs, ~ Missing(k, ref)
    PROVE  Target(k, ref) \in Key /\ Target(k, ref) \in Hits(k, ref)
<1>1. Target(k, ref) \in Hits(k, ref)
  BY DEF Missing, Target
<1>2. \A i \in DOMAIN book : book[i] \in Sheets
  BY LenProperties, ElementOfSeq DEF TypeOK
<1>3. GetSheet(ref.sheet) \subseteq Sheets
  BY <1>2 DEF GetSheet
<1>4. k[1] \in Sheets /\ ref.pos \in Pos
  BY DEF Key, Refs
<1>5. QED BY <1>1, <1>3, <1>4 DEF Hits, Key

\* What get_value finds at once is a value.
LEMMA PeekType ==
    ASSUME TypeOK, NEW k \in Key
    PROVE  Peek(k) \in Values
BY ContentType DEF TypeOK, Peek, Values

\* Remembering a value that is found at once keeps the type of the caches.
LEMMA RememberType ==
    ASSUME TypeOK, NEW k \in Key, Remember(k)
    PROVE  cache' \in [Key -> Values \cup {NotCached}]
BY PeekType DEF TypeOK, Remember

\* The innermost formula and the cell it asks for.
LEMMA TopType ==
    ASSUME TypeOK, stack # <<>>
    PROVE  /\ Len(stack) \in Nat \ {0}
           /\ Top \in Frames /\ Top.key \in Key /\ Top.vals \in Seq(Values)
           /\ \A i \in 1 .. Len(stack) : stack[i] \in Frames
           /\ DOMAIN stack = 1 .. Len(stack)
<1>1. stack \in Seq(Frames)
  BY DEF TypeOK, Frames
<1>2. Len(stack) \in Nat \ {0} /\ \A i \in 1 .. Len(stack) : stack[i] \in Frames
  BY <1>1, EmptySeq, ElementOfSeq
<1>3. Top \in Frames
  BY <1>2 DEF Top
<1>4. QED BY <1>1, <1>2, <1>3, LenProperties DEF Frames

\* The cell that is asked for is a cell the formula refers to.
LEMMA AskedType ==
    ASSUME TypeOK, Asking
    PROVE  /\ Len(Top.vals) + 1 \in 1 .. Len(content[Top.key].args)
           /\ NextRef \in Refs
           /\ Asked \in Key /\ Asked \in Hits(Top.key, NextRef)
<1>1. Top.key \in Key /\ Top.vals \in Seq(Values)
  BY TopType DEF Asking, Wanting
<1>2. Len(Top.vals) + 1 \in 1 .. Len(content[Top.key].args)
  BY <1>1, WantsInRange DEF Asking, Wanting, Formula
<1>3. NextRef \in Refs
  BY <1>1, <1>2, ContentType DEF NextRef, Formula
<1>4. QED BY <1>1, <1>2, <1>3, TargetType DEF Asking, Asked

-----------------------------------------------------------------------------
\* Types.

\* The initial state is typed.
LEMMA InitType == Init => TypeOK
<1> SUFFICES ASSUME Init PROVE TypeOK
  OBVIOUS
<1>1. book \in Seq(Sheets) /\ stack \in Seq([key : Key, vals : Seq(Values)])
  BY DEF Init
<1>2. title \in [Sheets -> Names] /\ content \in [Key -> Inputs]
  BY CalcAssumption DEF Init
<1>3. cache \in [Key -> Values \cup {NotCached}]
  BY DEF Init, NoCache
<1>4. sweep \in [left : Seq(Sheets), cells : SUBSET Key]
  BY DEF Init
<1>5. QED BY <1>1, <1>2, <1>3, <1>4 DEF Init, TypeOK

\* A frame for a formula that has read nothing yet.
LEMMA FrameType == ASSUME NEW k \in Key
                   PROVE  Frame(k) \in Frames /\ Frame(k).key = k /\ Frame(k).vals = <<>>
BY EmptySeq DEF Frame, Frames

\* What the innermost formula receives from a reference is a value.
LEMMA FedStack ==
    ASSUME TypeOK, stack # <<>>, NEW v \in Values
    PROVE  /\ Feed(stack, v) \in Seq(Frames)
           /\ Len(Feed(stack, v)) = Len(stack)
           /\ \A i \in 1 .. Len(stack) : Feed(stack, v)[i].key = stack[i].key
           /\ \A i \in 1 .. Len(stack) - 1 : Feed(stack, v)[i] = stack[i]
           /\ Feed(stack, v)[Len(stack)].vals = Append(Top.vals, v)
<1>1. stack \in Seq(Frames)
  BY DEF TypeOK, Frames
<1>2. QED BY <1>1, FeedType DEF Top

\* A delivery keeps the types of the stack and of the caches.
LEMMA DeliverStack ==
    ASSUME TypeOK, stack # <<>>, NEW v \in Values, Deliver(v)
    PROVE  /\ stack' = Delivered(v) /\ stack' \in Seq(Frames)
           /\ cache' \in [Key -> Values \cup {NotCached}]
<1>1. stack \in Seq(Frames)
  BY DEF TypeOK, Frames
<1>2. stack' = Delivered(v)
  BY DEF Deliver, Delivered, Callers
<1>3. cache' \in [Key -> Values \cup {NotCached}]
  BY TopType DEF Deliver, TypeOK
<1>4. QED BY <1>1, <1>2, <1>3, DeliveredType

\* A step of the computation changes the caches and the stack only.
LEMMA TypeByParts ==
    ASSUME TypeOK, UNCHANGED <<book, title, content>>,
           cache' \in [Key -> Values \cup {NotCached}],
           stack' \in Seq(Frames),
           sweep' \in [left : Seq(Sheets), cells : SUBSET Key],
           since' \in {"edit", "sheets", "recalc"}, overflowed' \in BOOLEAN
    PROVE  TypeOK'
BY DEF TypeOK, Frames

\* A read from outside keeps the types.
LEMMA ReadType == ASSUME TypeOK, NEW k \in Key, Read(k) PROVE TypeOK'
<1>1. cache' \in [Key -> Values \cup {NotCached}]
  BY RememberType DEF Read, TypeOK
<1>2. stack' \in Seq(Frames)
  <2>1. <<Frame(k)>> \in Seq(Frames) /\ stack \in Seq(Frames)
    BY FrameType DEF TypeOK, Frames
  <2>2. QED BY <2>1 DEF Read
<1>3. sweep' \in [left : Seq(Sheets), cells : SUBSET Key]
  BY DEF Read, TypeOK
<1>4. QED BY <1>1, <1>2, <1>3, TypeByParts DEF Read, TypeOK

\* A step of the computation keeps the types.
LEMMA ComputeType == ASSUME TypeOK, Compute PROVE TypeOK'
<1>1. /\ UNCHANGED <<book, title, content, sweep, since>> /\ overflowed' \in BOOLEAN
      /\ stack # <<>>
  BY DEF Compute, ReadMissing, ReadReady, ReadCircular, Enter, Overflow, Leave,
         Deliver, Asking, Wanting, TypeOK
<1>2. stack \in Seq(Frames) /\ CIRC \in Values /\ REF \in Values
  BY DEF TypeOK, Frames, Values, Errors
<1>3. CASE ReadMissing
  <2>1. stack' \in Seq(Frames)
    BY <1>1, <1>2, <1>3, FedStack DEF ReadMissing
  <2>2. QED BY <1>1, <1>3, <2>1, TypeByParts DEF ReadMissing, TypeOK
<1>4. CASE ReadReady
  <2>1. Asked \in Key
    BY <1>4, AskedType DEF ReadReady
  <2>2. stack' \in Seq(Frames)
    BY <1>1, <1>4, <2>1, PeekType, FedStack DEF ReadReady
  <2>3. cache' \in [Key -> Values \cup {NotCached}]
    BY <1>4, <2>1, RememberType DEF ReadReady
  <2>4. QED BY <1>1, <2>2, <2>3, TypeByParts DEF TypeOK
<1>5. CASE ReadCircular
  <2>1. Asked \in Key
    BY <1>5, AskedType DEF ReadCircular
  <2>2. stack' \in Seq(Frames)
    BY <1>1, <1>2, <1>5, FedStack DEF ReadCircular
  <2>3. cache' \in [Key -> Values \cup {NotCached}]
    BY <1>2, <1>5, <2>1 DEF ReadCircular, TypeOK
  <2>4. QED BY <1>1, <2>2, <2>3, TypeByParts DEF TypeOK
<1>6. CASE Enter
  <2>1. Frame(Asked) \in Frames
    BY <1>6, AskedType, FrameType DEF Enter
  <2>2. stack' \in Seq(Frames)
    BY <1>2, <1>6, <2>1, AppendProperties DEF Enter
  <2>3. QED BY <1>1, <1>6, <2>2, TypeByParts DEF Enter, TypeOK
<1>7. CASE Overflow
  <2>1. stack' \in Seq(Frames) /\ cache' \in [Key -> Values \cup {NotCached}]
    BY <1>1, <1>2, <1>7, DeliverStack DEF Overflow
  <2>2. QED BY <1>1, <2>1, TypeByParts DEF TypeOK
<1>8. CASE Leave
  <2>1. PICK v \in Results(Formula, Top.vals) : Deliver(v)
    BY <1>8 DEF Leave
  <2>2. v \in Values
    BY <1>1, <1>8, <2>1, TopType, ResultsType DEF Leave, Formula
  <2>3. stack' \in Seq(Frames) /\ cache' \in [Key -> Values \cup {NotCached}]
    BY <1>1, <2>1, <2>2, DeliverStack
  <2>4. QED BY <1>1, <2>3, TypeByParts DEF TypeOK
<1>9. QED BY <1>3, <1>4, <1>5, <1>6, <1>7, <1>8 DEF Compute

\* The workbook changes only while nothing is computed.
Outside == \/ \E k \in Key, c \in Inputs : Edit(k, c)
           \/ \E n \in Names : AddSheet(n) \/ RenameSheet(n) \/ RemoveSheet(n)
           \/ Recalculate
           \/ RecalculateSheet

\* An edit, a sheet operation and recalculate() keep the types.
LEMMA OutsideType == ASSUME TypeOK, Outside PROVE TypeOK'
<1>1. \A i \in DOMAIN book : book[i] \in Sheets
  BY LenProperties, ElementOfSeq DEF TypeOK
<1>2. CASE \E k \in Key, c \in Inputs : Edit(k, c)
  BY <1>2 DEF Edit, NoCache, TypeOK
<1>3. CASE \E n \in Names : AddSheet(n)
  <2>1. book' \in Seq(Sheets)
    BY <1>3, AppendProperties DEF AddSheet, TypeOK
  <2>2. title' \in [Sheets -> Names]
    BY <1>3 DEF AddSheet, TypeOK
  <2>3. QED BY <1>3, <2>1, <2>2 DEF AddSheet, TypeOK
<1>4. CASE \E n \in Names : RenameSheet(n)
  BY <1>1, <1>4 DEF RenameSheet, TypeOK
<1>5. CASE \E n \in Names : RemoveSheet(n)
  <2>1. PICK n \in Names : RemoveSheet(n)
    BY <1>5
  <2>2. book' \in Seq(Sheets)
    <3>1. ASSUME NEW m \in 0 .. Len(book), NEW f \in [1 .. m -> 1 .. Len(book)]
          PROVE  [i \in 1 .. m |-> book[f[i]]] \in Seq(Sheets)
      <4>1. m \in Nat /\ DOMAIN book = 1 .. Len(book)
        BY <3>1, LenProperties DEF TypeOK
      <4>2. \A i \in 1 .. m : book[f[i]] \in Sheets
        BY <1>1, <3>1, <4>1
      <4>3. QED BY <4>1, <4>2, IsASeq
    <3>2. \A s \in Sheets : <<s>> \in Seq(Sheets)
      OBVIOUS
    <3>3. PICK m \in 0 .. Len(book) : \E f \in [1 .. m -> 1 .. Len(book)] :
             \/ book' = [i \in 1 .. m |-> book[f[i]]]
             \/ \E s \in Sheets : book' = <<s>>
      BY <2>1 DEF RemoveSheet
    <3>4. QED BY <3>1, <3>2, <3>3
  <2>3. title' \in [Sheets -> Names]
    BY <2>1, CalcAssumption DEF RemoveSheet, TypeOK
  <2>4. content' \in [Key -> Inputs]
    BY <2>1, CalcAssumption DEF RemoveSheet, TypeOK
  <2>5. cache' \in [Key -> Values \cup {NotCached}]
    BY <2>1 DEF RemoveSheet, TypeOK
  <2>6. QED BY <2>1, <2>2, <2>3, <2>4, <2>5 DEF RemoveSheet, TypeOK
<1>6. CASE Recalculate
  BY <1>6 DEF Recalculate, TypeOK
<1>7. CASE RecalculateSheet
  <2>1. cache' \in [Key -> Values \cup {NotCached}]
    BY <1>7 DEF RecalculateSheet, TypeOK
  <2>2. Tail(sweep.left) \in Seq(Sheets)
    BY <1>7, HeadTailProperties DEF RecalculateSheet, TypeOK
  <2>3. sweep' \in [left : Seq(Sheets), cells : SUBSET Key]
    BY <1>7, <2>2 DEF RecalculateSheet
  <2>4. QED BY <1>7, <2>1, <2>3 DEF RecalculateSheet, TypeOK
<1>8. QED BY <1>2, <1>3, <1>4, <1>5, <1>6, <1>7 DEF Outside

\* Every step keeps the types.
LEMMA NextType == ASSUME TypeOK, [Next]_vars PROVE TypeOK'
<1>1. CASE UNCHANGED vars
  BY <1>1 DEF vars, TypeOK
<1>2. QED BY <1>1, ReadType, ComputeType, OutsideType DEF Next, Outside

-----------------------------------------------------------------------------
\* References and cycles.

Layout == <<book, title, content>>

\* While formulas, sheets and names stay, references lead where they led.
LEMMA LayoutStays ==
    ASSUME UNCHANGED Layout
    PROVE  /\ \A k, ref : Hits(k, ref)' = Hits(k, ref)
           /\ \A k, ref : Missing(k, ref)' <=> Missing(k, ref)
           /\ \A k, ref : Target(k, ref)' = Target(k, ref)
           /\ \A k : Deps(k)' = Deps(k)
           /\ \A k : Circular(k)' <=> Circular(k)
<1>1. \A k, ref : Hits(k, ref)' = Hits(k, ref)
  BY DEF Layout, Hits, GetSheet
<1>2. \A k, ref : Target(k, ref)' = Target(k, ref)
  BY <1>1 DEF Target
<1>3. \A k : Deps(k)' = Deps(k)
  BY <1>1 DEF Deps, Layout
<1>4. QED BY <1>1, <1>2, <1>3 DEF Missing, Circular

\* The cell behind a reference of a formula is one of its dependencies.
LEMMA TargetInDeps ==
    ASSUME TypeOK, NEW k \in Key, NEW i \in 1 .. Len(content[k].args),
           ~ Missing(k, content[k].args[i])
    PROVE  /\ Target(k, content[k].args[i]) \in Key
           /\ Target(k, content[k].args[i]) \in Deps(k)
<1>1. content[k].args[i] \in Refs /\ DOMAIN content[k].args = 1 .. Len(content[k].args)
  BY ContentType, LenProperties
<1>2. QED BY <1>1, TargetType DEF Deps

\* What refers to a circular cell is circular.
LEMMA CircularSpreads ==
    ASSUME NEW k \in Key, NEW j \in Deps(k), Circular(j)
    PROVE  Circular(k)
<1>1. PICK S \in SUBSET Key : j \in S /\ \A h \in S : Deps(h) \cap S # {}
  BY DEF Circular
<1> DEFINE T == S \cup {k}
<1>2. T \in SUBSET Key /\ k \in T
  OBVIOUS
<1>3. \A h \in T : Deps(h) \cap T # {}
  BY <1>1
<1>4. QED BY <1>2, <1>3 DEF Circular

\* A formula that asks for a cell that is being computed has found a cycle: the
\* cells of the stack, from that one to the top, each refer to the next.
LEMMA CycleFound ==
    ASSUME TypeOK, StackIInv, Asking, Asked \in Computing
    PROVE  Circular(Asked)
<1> DEFINE n == Len(stack)
<1>1. /\ n \in Nat \ {0} /\ DOMAIN stack = 1 .. n
      /\ \A i \in 1 .. n : stack[i].key \in Key /\ stack[i].vals \in Seq(Values)
  BY TopType DEF Asking, Wanting, Frames
<1>2. PICK a \in 1 .. n : stack[a].key = Asked
  BY <1>1 DEF Computing
<1> DEFINE S == {stack[i].key : i \in a .. n}
<1>3. S \in SUBSET Key /\ Asked \in S
  BY <1>1, <1>2
<1> HIDE DEF n
<1>4. ASSUME NEW i \in a .. n
      PROVE  Deps(stack[i].key) \cap S # {}
  <2>1. i \in 1 .. n
    BY <1>1, <1>2
  <2>2. CASE i = n
    <3> DEFINE m == Len(Top.vals) + 1
    <3>1. Top.key \in Key /\ m \in 1 .. Len(content[Top.key].args)
      BY AskedType, TopType DEF Asking, Wanting
    <3>2. ~ Missing(Top.key, content[Top.key].args[m])
      BY DEF Asking, NextRef, Formula
    <3> HIDE DEF m
    <3>3. Target(Top.key, content[Top.key].args[m]) \in Deps(Top.key)
      BY <3>1, <3>2, TargetInDeps
    <3>4. Asked \in Deps(Top.key)
      BY <3>3 DEF Asked, NextRef, Formula, m
    <3>5. QED BY <1>3, <2>2, <3>4 DEF Top, n
  <2>3. CASE i # n
    <3>1. i \in 1 .. n - 1 /\ i + 1 \in a .. n
      BY <1>1, <1>2, <2>1, <2>3
    <3>2. WaitsFor(stack[i], stack[i + 1].key)
      BY <3>1 DEF StackIInv, Chain, n
    <3>3. stack[i + 1].key \in Deps(stack[i].key)
      BY <1>1, <2>1, <3>2, WantsInRange, TargetInDeps DEF WaitsFor
    <3>4. QED BY <3>1, <3>3
  <2>4. QED BY <2>2, <2>3
<1>5. \A j \in S : Deps(j) \cap S # {}
  BY <1>4
<1> HIDE DEF S
<1>6. QED BY <1>3, <1>5 DEF Circular

-----------------------------------------------------------------------------
\* The stack: no cell twice, and each formula waits for the next.

\* While formulas and sheets stay, a frame waits for what it waited for.
LEMMA WaitsStays ==
    ASSUME UNCHANGED Layout
    PROVE  /\ \A f, k : WaitsFor(f, k)' <=> WaitsFor(f, k)
           /\ \A f : FrameOK(f)' <=> FrameOK(f)
BY LayoutStays DEF WaitsFor, FrameOK, Layout

\* Reading a reference keeps the invariant of the stack.
LEMMA FeedKeepsStack ==
    ASSUME TypeOK, StackIInv, Wanting, UNCHANGED Layout,
           NEW v \in Values, stack' = Feed(stack, v),
           \A i \in 1 .. Len(stack) : cache'[stack[i].key] \in {NotCached, CIRC}
    PROVE  StackIInv'
<1> DEFINE n == Len(stack)
<1>1. /\ n \in Nat \ {0} /\ DOMAIN stack = 1 .. n
      /\ Top.key \in Key /\ Top.vals \in Seq(Values)
      /\ n - 1 \in Nat
  BY TopType DEF Wanting
<1>2. /\ stack' \in Seq(Frames) /\ Len(stack') = n
      /\ \A i \in 1 .. n : stack'[i].key = stack[i].key
      /\ \A i \in 1 .. n - 1 : stack'[i] = stack[i]
      /\ stack'[n].vals = Append(Top.vals, v)
  BY FedStack DEF Wanting
<1>3. DOMAIN stack' = 1 .. n
  BY <1>2, LenProperties
<1> HIDE DEF n
<1>4. NoReentry'
  BY <1>1, <1>2, <1>3 DEF StackIInv, NoReentry
<1>5. \A i \in 1 .. n : FrameOK(stack[i])'
  <2>1. FrameOK(stack'[n])
    <3>1. Len(Top.vals) + 1 \in 1 .. Len(content[Top.key].args)
      BY <1>1, WantsInRange DEF Wanting, Formula
    <3>2. Len(stack'[n].vals) = Len(Top.vals) + 1
      BY <1>1, <1>2, AppendProperties
    <3>3. stack'[n].key = Top.key /\ IsFormula(content[Top.key])
      BY <1>1, <1>2 DEF StackIInv, FrameOK, Top, n
    <3>4. QED BY <3>1, <3>2, <3>3 DEF FrameOK
  <2>2. ASSUME NEW i \in 1 .. n, i # n PROVE FrameOK(stack'[i])
    BY <1>1, <1>2, <2>2 DEF StackIInv
  <2>3. QED BY <2>1, <2>2, WaitsStays
<1>6. Chain'
  <2>1. ASSUME NEW i \in 1 .. n - 1 PROVE WaitsFor(stack'[i], stack'[i + 1].key)
    <3>1. i + 1 \in 1 .. n
      BY <1>1
    <3>2. QED BY <1>2, <3>1 DEF StackIInv, Chain, n
  <2>2. QED BY <1>2, <2>1, WaitsStays DEF Chain
<1>7. ComputingUncached'
  BY <1>2, <1>3 DEF ComputingUncached, n
<1>8. QED BY <1>3, <1>4, <1>5, <1>6, <1>7 DEF StackIInv

\* Entering a formula keeps it: the cell is not on the stack yet.
LEMMA EnterKeepsStack ==
    ASSUME TypeOK, StackIInv, Enter
    PROVE  StackIInv'
<1> DEFINE n == Len(stack)
<1>1. /\ n \in Nat \ {0} /\ DOMAIN stack = 1 .. n
      /\ stack \in Seq(Frames)
      /\ UNCHANGED Layout /\ Asked \in Key
  BY TopType, AskedType DEF Enter, Asking, Wanting, Layout, TypeOK, Frames
<1>2. Frame(Asked) \in Frames /\ Frame(Asked).key = Asked /\ Frame(Asked).vals = <<>>
  BY <1>1, FrameType
<1>3. /\ stack' \in Seq(Frames) /\ Len(stack') = n + 1
      /\ \A i \in 1 .. n : stack'[i] = stack[i]
      /\ stack'[n + 1] = Frame(Asked)
  BY <1>1, <1>2, AppendProperties DEF Enter
<1>4. DOMAIN stack' = 1 .. n + 1
  BY <1>3, LenProperties
<1>5. \A i \in 1 .. n : stack[i].key # Asked
  BY <1>1 DEF Enter, Computing
<1>6. WaitsFor(stack[n], Asked)
  BY DEF Enter, Asking, Wanting, WaitsFor, Asked, NextRef, Formula, Top
<1>7. IsFormula(content[Asked]) /\ cache[Asked] = NotCached
  BY DEF Enter, Ready
<1>8. Len(content[Asked].args) >= 0 /\ Len(<<>>) = 0
  BY <1>1, ContentType, LenProperties
<1> HIDE DEF n
<1>9. \A i \in 1 .. n + 1 : i \in 1 .. n \/ i = n + 1
  BY <1>1
<1>10. NoReentry'
  <2>1. ASSUME NEW i \in 1 .. n + 1, NEW j \in 1 .. n + 1, stack'[i].key = stack'[j].key
        PROVE  i = j
    <3>1. CASE i \in 1 .. n /\ j \in 1 .. n
      BY <1>1, <1>3, <2>1, <3>1 DEF StackIInv, NoReentry
    <3>2. CASE i = n + 1 \/ j = n + 1
      BY <1>2, <1>3, <1>5, <1>9, <2>1, <3>2
    <3>3. QED BY <1>9, <3>1, <3>2
  <2>2. QED BY <1>4, <2>1 DEF NoReentry
<1>11. \A i \in 1 .. n + 1 : FrameOK(stack[i])'
  <2>1. FrameOK(Frame(Asked))
    BY <1>2, <1>7, <1>8 DEF FrameOK
  <2>2. \A i \in 1 .. n + 1 : FrameOK(stack'[i])
    BY <1>1, <1>3, <1>9, <2>1 DEF StackIInv
  <2>3. QED BY <1>1, <2>2, WaitsStays
<1>12. Chain'
  <2>1. ASSUME NEW i \in 1 .. n PROVE WaitsFor(stack'[i], stack'[i + 1].key)
    <3>1. CASE i = n
      BY <1>2, <1>3, <1>6, <3>1
    <3>2. CASE i # n
      <4>1. i \in 1 .. n - 1 /\ i + 1 \in 1 .. n
        BY <1>1, <3>2
      <4>2. QED BY <1>3, <4>1 DEF StackIInv, Chain, n
    <3>3. QED BY <3>1, <3>2
  <2>2. Len(stack') - 1 = n
    BY <1>1, <1>3
  <2>3. QED BY <1>1, <2>1, <2>2, WaitsStays DEF Chain
<1>13. ComputingUncached'
  <2>1. cache' = cache
    BY DEF Enter
  <2>2. QED BY <1>1, <1>2, <1>3, <1>4, <1>7, <1>9, <2>1 DEF StackIInv, ComputingUncached
<1>14. QED BY <1>4, <1>10, <1>11, <1>12, <1>13 DEF StackIInv

\* Leaving a formula keeps it: the frame below was waiting for that cell.
LEMMA DeliverKeepsStack ==
    ASSUME TypeOK, StackIInv, stack # <<>>, UNCHANGED Layout,
           NEW v \in Values, Deliver(v)
    PROVE  StackIInv'
<1> DEFINE n == Len(stack)
<1>1. /\ n \in Nat \ {0} /\ DOMAIN stack = 1 .. n
      /\ Top.key \in Key /\ stack \in Seq(Frames)
      /\ \A i \in 1 .. n : stack[i].key \in Key /\ stack[i].vals \in Seq(Values)
  BY TopType, SMTT(30) DEF TypeOK, Frames
<1>2. /\ stack' \in Seq(Frames) /\ Len(stack') = n - 1
      /\ \A i \in 1 .. n - 1 : stack'[i].key = stack[i].key
      /\ \A i \in 1 .. n - 2 : stack'[i] = stack[i]
      /\ n > 1 => stack'[n - 1].vals = Append(stack[n - 1].vals, v)
  BY <1>1, DeliverStack, DeliveredType, Zenon
<1>3. DOMAIN stack' = 1 .. n - 1
  BY <1>2, LenProperties
<1> HIDE DEF n
<1>4. \A i \in 1 .. n - 1 : i \in 1 .. n /\ i # n
  BY <1>1
<1>5. NoReentry'
  BY <1>1, <1>2, <1>3, <1>4 DEF StackIInv, NoReentry
<1>6. \A i \in 1 .. n - 1 : FrameOK(stack[i])'
  <2>1. CASE n > 1
    <3>1. n - 1 \in 1 .. n - 1 /\ n - 1 + 1 = n /\ n - 1 \in 1 .. n
      BY <1>1, <2>1
    <3>2. WaitsFor(stack[n - 1], stack[n].key)
      BY <3>1 DEF StackIInv, Chain, n
    <3>3. Len(stack[n - 1].vals) + 1 \in 1 .. Len(content[stack[n - 1].key].args)
      BY <1>1, <3>1, <3>2, WantsInRange DEF WaitsFor
    <3>4. Len(stack'[n - 1].vals) = Len(stack[n - 1].vals) + 1
      BY <1>1, <1>2, <2>1, <3>1, AppendProperties
    <3>5. stack'[n - 1].key = stack[n - 1].key /\ IsFormula(content[stack[n - 1].key])
      BY <1>1, <1>2, <3>1 DEF StackIInv, FrameOK
    <3>6. FrameOK(stack'[n - 1])
      BY <3>3, <3>4, <3>5 DEF FrameOK
    <3>7. ASSUME NEW i \in 1 .. n - 1, i # n - 1 PROVE FrameOK(stack'[i])
      <4>1. i \in 1 .. n - 2 /\ i \in 1 .. n
        BY <1>1, <3>7
      <4>2. QED BY <1>1, <1>2, <4>1 DEF StackIInv
    <3>8. QED BY <3>6, <3>7, WaitsStays
  <2>2. CASE ~ n > 1
    BY <1>1, <2>2
  <2>3. QED BY <2>1, <2>2
<1>7. Chain'
  <2>1. ASSUME NEW i \in 1 .. n - 2 PROVE WaitsFor(stack'[i], stack'[i + 1].key)
    <3>1. i \in 1 .. n - 1 /\ i + 1 \in 1 .. n - 1
      BY <1>1
    <3>2. QED BY <1>2, <3>1 DEF StackIInv, Chain, n
  <2>2. Len(stack') - 1 = n - 2
    BY <1>1, <1>2
  <2>3. QED BY <2>1, <2>2, WaitsStays DEF Chain
<1>8. ComputingUncached'
  <2>1. ASSUME NEW i \in 1 .. n - 1
        PROVE  cache'[stack'[i].key] \in {NotCached, CIRC}
    <3>1. stack[i].key # Top.key
      <4>1. stack[i].key # stack[n].key
        BY <1>1, <1>4, <2>1 DEF StackIInv, NoReentry
      <4>2. QED BY <4>1 DEF Top, n
    <3>2. cache'[stack[i].key] = cache[stack[i].key]
      BY <1>1, <1>4, <2>1, <3>1 DEF Deliver, TypeOK
    <3>3. QED BY <1>1, <1>2, <1>4, <2>1, <3>2 DEF StackIInv, ComputingUncached
  <2>2. QED BY <1>3, <2>1 DEF ComputingUncached
<1>9. QED BY <1>3, <1>5, <1>6, <1>7, <1>8 DEF StackIInv

-----------------------------------------------------------------------------
\* The values: what a cell that is not circular shows does not change.

\* A step after which cells that are not circular show what they showed.
Calm == /\ UNCHANGED Layout
        /\ \A k \in Key : ~ Circular(k) /\ Ready(k) => Ready(k)' /\ Peek(k)' = Peek(k)

\* What a cell that is not circular sees stays.
LEMMA SeenStays ==
    ASSUME TypeOK, Calm, NEW k \in Key, ~ Circular(k),
           NEW i \in 1 .. Len(content[k].args), Visible(k, content[k].args[i])
    PROVE  /\ Visible(k, content[k].args[i])'
           /\ Sees(k, content[k].args[i])' = Sees(k, content[k].args[i])
<1>1. content' = content /\ content[k].args[i] = content'[k].args[i]
  BY DEF Calm, Layout
<1>2. PICK ref : ref = content[k].args[i]
  OBVIOUS
<1>3. (Missing(k, ref)' <=> Missing(k, ref)) /\ Target(k, ref)' = Target(k, ref)
  BY LayoutStays DEF Calm
<1>4. Visible(k, ref)' /\ Sees(k, ref)' = Sees(k, ref)
  <2>1. CASE Missing(k, ref)
    BY <1>3, <2>1 DEF Visible, Sees
  <2>2. CASE ~ Missing(k, ref)
    <3>1. PICK d : d = Target(k, ref)
      OBVIOUS
    <3>2. d \in Key /\ d \in Deps(k)
      BY <1>2, <2>2, <3>1, TargetInDeps
    <3>3. ~ Circular(d) /\ Ready(d)
      BY <1>2, <2>2, <3>1, <3>2, CircularSpreads DEF Visible
    <3>4. Ready(d)' /\ Peek(d)' = Peek(d)
      BY <3>2, <3>3 DEF Calm
    <3>5. Target(k, ref)' = d
      BY <1>3, <3>1
    <3>6. Visible(k, ref)'
      BY <3>4, <3>5 DEF Visible
    <3>7. Sees(k, ref)' = Sees(k, ref)
      BY <1>3, <2>2, <3>1, <3>4, <3>5 DEF Sees
    <3>8. QED BY <3>6, <3>7
  <2>3. QED BY <2>1, <2>2
<1>5. QED BY <1>1, <1>2, <1>4

\* After a calm step a frame that is not circular is as current as before.
LEMMA CurrentStays ==
    ASSUME TypeOK, Calm, NEW f \in Frames, ~ Circular(f.key), FrameOK(f), Current(f)
    PROVE  Current(f)'
<1>1. f.key \in Key /\ Len(f.vals) \in Nat /\ content' = content
  BY LenProperties DEF Frames, Calm, Layout
<1>2. Len(content[f.key].args) \in Nat
  BY <1>1, ContentType, LenProperties
<1>3. ASSUME NEW j \in 1 .. Len(f.vals)
      PROVE  /\ Visible(f.key, content[f.key].args[j])'
             /\ f.vals[j] = Sees(f.key, content[f.key].args[j])'
  <2>1. j \in 1 .. Len(content[f.key].args)
    BY <1>1, <1>2 DEF FrameOK
  <2>2. Visible(f.key, content[f.key].args[j])
        /\ f.vals[j] = Sees(f.key, content[f.key].args[j])
    BY DEF Current
  <2>3. QED BY <1>1, <2>1, <2>2, SeenStays
<1>4. QED BY <1>1, <1>3 DEF Current

\* After a calm step a cached value that has not changed is as justified as before.
LEMMA JustifiedStays ==
    ASSUME TypeOK, Calm, NEW k \in Key, ~ Circular(k), Justified(k), cache'[k] = cache[k]
    PROVE  Justified(k)'
<1> DEFINE args == content[k].args
           seen(n) == [i \in 1 .. n |-> Sees(k, args[i])]
<1>1. PICK n \in 0 .. Len(args) :
         /\ \A i \in 1 .. n : Visible(k, args[i])
         /\ ~ Wants(content[k], seen(n))
         /\ cache[k] \in Results(content[k], seen(n))
  BY DEF Justified
<1>2. content' = content
  BY DEF Calm, Layout
<1>3. Len(args) \in Nat
  BY ContentType, LenProperties
<1>4. ASSUME NEW i \in 1 .. n
      PROVE  /\ Visible(k, args[i])'
             /\ Sees(k, args[i])' = Sees(k, args[i])
  BY <1>1, <1>3, <1>4, SeenStays
<1>5. [i \in 1 .. n |-> Sees(k, args[i])'] = seen(n)
  BY <1>4
<1>6. QED BY <1>1, <1>2, <1>4, <1>5 DEF Justified

\* Every change of a calm step to the caches is one of these.
Settles(k) == \/ cache'[k] = cache[k]
              \/ Circular(k)
              \/ ~ IsFormula(content[k]) /\ cache'[k] = content[k].text

\* A calm step that settles every cache entry, or justifies it, keeps the values.
LEMMA CalmKeepsValues ==
    ASSUME TypeOK, Calm, CircIsCircular, AllJustified,
           \A k \in Key : \/ Settles(k)
                          \/ Justified(k)' /\ (cache'[k] = CIRC => Circular(k))
    PROVE  CircIsCircular' /\ AllJustified'
<1>1. UNCHANGED Layout /\ content' = content
  BY DEF Calm, Layout
<1>2. \A k \in Key : Circular(k)' <=> Circular(k)
  BY <1>1, LayoutStays
<1>3. \A k \in Key : content[k].text # CIRC
  BY ContentType, CalcAssumption DEF Errors
<1>4. CircIsCircular'
  BY <1>2, <1>3 DEF CircIsCircular, Settles
<1>5. AllJustified'
  <2>1. ASSUME NEW k \in Key, IsFormula(content[k]), cache'[k] # NotCached, ~ Circular(k)
        PROVE  Justified(k)'
    BY <2>1, JustifiedStays DEF Settles, AllJustified
  <2>2. QED BY <1>1, <1>2, <2>1 DEF AllJustified
<1>6. QED BY <1>4, <1>5

\* Remembering a value that get_value finds at once is calm.
LEMMA RememberCalm ==
    ASSUME TypeOK, UNCHANGED Layout, NEW k \in Key, Ready(k), Remember(k)
    PROVE  /\ Calm
           /\ \A j \in Key : Settles(j)
           /\ \A j \in Key : IsFormula(content[j]) => cache'[j] = cache[j]
<1>1. content' = content
  BY DEF Layout
<1>2. content[k].text # NotCached
  BY ContentType, CalcAssumption DEF Values
<1>3. \A j \in Key : \/ cache'[j] = cache[j]
                     \/ /\ j = k /\ cache[j] = NotCached /\ ~ IsFormula(content[j])
                        /\ cache'[j] = content[j].text
  BY DEF Remember, Peek, Ready, TypeOK
<1>4. \A j \in Key : Ready(j) => Ready(j)' /\ Peek(j)' = Peek(j)
  BY <1>1, <1>2, <1>3 DEF Ready, Peek
<1>5. QED BY <1>3, <1>4 DEF Calm, Settles

\* So is a step that leaves the caches alone.
LEMMA IdleCalm ==
    ASSUME UNCHANGED Layout, cache' = cache
    PROVE  Calm /\ \A k \in Key : Settles(k)
<1>1. content' = content
  BY DEF Layout
<1>2. \A k \in Key : (Ready(k)' <=> Ready(k)) /\ Peek(k)' = Peek(k)
  BY <1>1 DEF Ready, Peek
<1>3. QED BY <1>2 DEF Calm, Settles

\* And #CIRC! for a cell of a cycle.
LEMMA CircularCalm ==
    ASSUME TypeOK, UNCHANGED Layout, NEW k \in Key, Circular(k),
           cache' = [cache EXCEPT ![k] = CIRC]
    PROVE  Calm /\ \A j \in Key : Settles(j)
<1>1. content' = content
  BY DEF Layout
<1>2. \A j \in Key : j # k => cache'[j] = cache[j]
  BY DEF TypeOK
<1>3. \A j \in Key : j # k => (Ready(j)' <=> Ready(j)) /\ Peek(j)' = Peek(j)
  BY <1>1, <1>2 DEF Ready, Peek
<1>4. QED BY <1>2, <1>3 DEF Calm, Settles

\* And a value for the innermost formula, which had none or is circular.
LEMMA DeliverCalm ==
    ASSUME TypeOK, StackIInv, FramesCurrent, stack # <<>>, UNCHANGED Layout,
           NEW v \in Values, Deliver(v)
    PROVE  /\ Calm
           /\ \A k \in Key : k # Top.key => cache'[k] = cache[k]
           /\ cache'[Top.key] = v
<1>1. content' = content
  BY DEF Layout
<1>2. Top.key \in Key /\ Len(stack) \in DOMAIN stack
  BY TopType
<1>3. \A k \in Key : cache'[k] = IF k = Top.key THEN v ELSE cache[k]
  BY <1>2 DEF Deliver, TypeOK
<1>4. Circular(Top.key) \/ ~ Ready(Top.key)
  BY <1>2 DEF FramesCurrent, StackIInv, FrameOK, Ready, Top
<1>5. \A k \in Key : k # Top.key => (Ready(k)' <=> Ready(k)) /\ Peek(k)' = Peek(k)
  BY <1>1, <1>3, SMTT(30) DEF Ready, Peek
<1>6. QED BY <1>2, <1>3, <1>4, <1>5 DEF Calm

\* A frame that has read one more value, the one to be seen.
LEMMA CurrentGrows ==
    ASSUME TypeOK, Calm, NEW f \in Frames, NEW g \in Frames, NEW v \in Values, NEW r,
           ~ Circular(f.key), FrameOK(f), Current(f),
           g.key = f.key, g.vals = Append(f.vals, v),
           r = content[f.key].args[Len(f.vals) + 1],
           Visible(f.key, r)', v = Sees(f.key, r)'
    PROVE  Current(g)'
<1>1. Current(f)'
  BY CurrentStays
<1>2. /\ content' = content /\ Len(f.vals) \in Nat
      /\ f.vals \in Seq(Values)
  BY LenProperties DEF Calm, Layout, Frames
<1> DEFINE n == Len(f.vals)
<1>3. /\ Len(g.vals) = n + 1 /\ g.vals[n + 1] = v
      /\ \A j \in 1 .. n : g.vals[j] = f.vals[j]
  BY <1>2, AppendProperties
<1>4. n \in Nat
  BY <1>2
<1>5. PICK args : args = content[f.key].args /\ args = content'[f.key].args
  BY <1>2
<1>6. /\ \A j \in 1 .. n : Visible(f.key, args[j])' /\ f.vals[j] = Sees(f.key, args[j])'
      /\ r = args[n + 1]
  BY <1>1, <1>5 DEF Current
<1> HIDE DEF n
<1>7. ASSUME NEW j \in 1 .. n + 1
      PROVE  Visible(f.key, args[j])' /\ g.vals[j] = Sees(f.key, args[j])'
  <2>1. CASE j = n + 1
    BY <1>3, <1>6, <2>1
  <2>2. CASE j # n + 1
    <3>1. j \in 1 .. n
      BY <1>4, <2>2
    <3>2. QED BY <1>3, <1>6, <3>1
  <2>3. QED BY <2>1, <2>2
<1>8. QED BY <1>3, <1>5, <1>7 DEF Current

-----------------------------------------------------------------------------
\* The frames stay current.

\* Reading a reference keeps the frames current, if the value read is what is seen.
LEMMA FeedKeepsFrames ==
    ASSUME TypeOK, StackIInv, FramesCurrent, Wanting, Calm,
           NEW v \in Values, stack' = Feed(stack, v),
           NEW t, t = Top.key, NEW r, r = NextRef,
           \A k \in Key : ~ Circular(k) /\ k \in Computing => cache'[k] = cache[k],
           ~ Circular(t) => Visible(t, r)' /\ v = Sees(t, r)'
    PROVE  FramesCurrent'
<1> DEFINE n == Len(stack)
<1>1. /\ n \in Nat \ {0} /\ DOMAIN stack = 1 .. n
      /\ \A i \in 1 .. n : stack[i] \in Frames /\ stack[i].key \in Key
  BY TopType DEF Wanting, Frames
<1>2. /\ stack' \in Seq(Frames) /\ Len(stack') = n
      /\ \A i \in 1 .. n : stack'[i].key = stack[i].key
      /\ \A i \in 1 .. n - 1 : stack'[i] = stack[i]
      /\ stack'[n].vals = Append(stack[n].vals, v)
  BY FedStack DEF Wanting, Top
<1>3. DOMAIN stack' = 1 .. n /\ \A i \in 1 .. n : stack'[i] \in Frames
  BY <1>2, LenProperties, ElementOfSeq
<1>4. stack[n] = Top
  BY DEF Top
<1>5. \A k \in Key : Circular(k)' <=> Circular(k)
  BY LayoutStays DEF Calm
<1> HIDE DEF n
<1>6. ASSUME NEW i \in 1 .. n, ~ Circular(stack[i].key)
      PROVE  cache'[stack'[i].key] = NotCached /\ Current(stack[i])'
  <2>1. /\ cache[stack[i].key] = NotCached /\ Current(stack[i]) /\ FrameOK(stack[i])
    BY <1>1, <1>6 DEF FramesCurrent, StackIInv
  <2>2. cache'[stack'[i].key] = NotCached
    BY <1>1, <1>2, <1>6, <2>1 DEF Computing
  <2>3. PICK f \in Frames : f = stack[i]
    BY <1>1
  <2>4. PICK g \in Frames : g = stack'[i]
    BY <1>3
  <2>5. Current(g)'
    <3>1. CASE i = n
      <4>1. g.key = f.key /\ g.vals = Append(f.vals, v) /\ f = Top
        BY <1>2, <1>4, <2>3, <2>4, <3>1
      <4>2. r = content[f.key].args[Len(f.vals) + 1]
        BY <4>1 DEF NextRef, Formula
      <4>3. Visible(f.key, r)' /\ v = Sees(f.key, r)'
        BY <1>6, <2>3, <4>1
      <4>4. QED BY <1>6, <2>1, <2>3, <4>1, <4>2, <4>3, CurrentGrows
    <3>2. CASE i # n
      <4>1. g = f
        BY <1>1, <1>2, <2>3, <2>4, <3>2
      <4>2. QED BY <1>6, <2>1, <2>3, <4>1, CurrentStays
    <3>3. QED BY <3>1, <3>2
  <2>6. QED BY <2>2, <2>4, <2>5
<1>7. QED BY <1>1, <1>2, <1>3, <1>5, <1>6 DEF FramesCurrent

\* Entering a formula keeps the frames current.
LEMMA EnterKeepsFrames ==
    ASSUME TypeOK, StackIInv, FramesCurrent, Enter
    PROVE  FramesCurrent'
<1> DEFINE n == Len(stack)
<1>1. /\ n \in Nat \ {0} /\ DOMAIN stack = 1 .. n
      /\ \A i \in 1 .. n : stack[i] \in Frames /\ stack[i].key \in Key
      /\ stack \in Seq(Frames) /\ UNCHANGED Layout /\ cache' = cache /\ Asked \in Key
  BY TopType, AskedType DEF Enter, Asking, Wanting, Layout, TypeOK, Frames
<1>2. Frame(Asked) \in Frames /\ Frame(Asked).key = Asked /\ Frame(Asked).vals = <<>>
  BY <1>1, FrameType
<1>3. /\ stack' \in Seq(Frames) /\ Len(stack') = n + 1
      /\ \A i \in 1 .. n : stack'[i] = stack[i]
      /\ stack'[n + 1] = Frame(Asked)
  BY <1>1, <1>2, AppendProperties DEF Enter
<1>4. DOMAIN stack' = 1 .. n + 1
  BY <1>3, LenProperties
<1>5. Calm /\ \A k \in Key : Circular(k)' <=> Circular(k)
  BY <1>1, IdleCalm, LayoutStays
<1> HIDE DEF n
<1>6. ASSUME NEW i \in 1 .. n + 1
      PROVE  \/ Circular(stack[i].key)'
             \/ cache'[stack'[i].key] = NotCached /\ Current(stack[i])'
  <2>1. PICK g : g = stack'[i]
    OBVIOUS
  <2>2. CASE i = n + 1
    <3>1. g.vals = <<>> /\ cache'[g.key] = NotCached
      BY <1>1, <1>2, <1>3, <2>1, <2>2 DEF Enter, Ready
    <3>2. Len(<<>>) = 0
      OBVIOUS
    <3>3. Current(g)'
      BY <3>1, <3>2 DEF Current
    <3>4. QED BY <2>1, <3>1, <3>3
  <2>3. CASE i # n + 1
    <3>1. i \in 1 .. n
      BY <1>1, <2>3
    <3>2. g = stack[i] /\ g \in Frames /\ g.key \in Key
      BY <1>1, <1>3, <2>1, <3>1
    <3>3. FrameOK(g) /\ (Circular(g.key) \/ (cache[g.key] = NotCached /\ Current(g)))
      BY <1>1, <3>1, <3>2 DEF FramesCurrent, StackIInv
    <3>4. CASE Circular(g.key)
      BY <1>5, <2>1, <3>2, <3>4
    <3>5. CASE ~ Circular(g.key)
      <4>1. Current(g)' /\ cache'[g.key] = NotCached
        BY <1>1, <1>5, <3>2, <3>3, <3>5, CurrentStays
      <4>2. QED BY <2>1, <4>1
    <3>6. QED BY <3>4, <3>5
  <2>4. QED BY <2>2, <2>3
<1>7. QED BY <1>4, <1>6 DEF FramesCurrent

\* Leaving a formula keeps them: its caller sees the value that was delivered.
LEMMA DeliverKeepsFrames ==
    ASSUME TypeOK, StackIInv, FramesCurrent, stack # <<>>, UNCHANGED Layout,
           NEW v \in Values, Deliver(v)
    PROVE  FramesCurrent'
<1> DEFINE n == Len(stack)
<1>1. /\ n \in Nat \ {0} /\ DOMAIN stack = 1 .. n /\ stack \in Seq(Frames)
      /\ \A i \in 1 .. n : stack[i] \in Frames /\ stack[i].key \in Key
      /\ stack[n] = Top /\ Top.key \in Key
  BY TopType, SMTT(30) DEF TypeOK, Frames, Top
<1>2. /\ stack' \in Seq(Frames) /\ Len(stack') = n - 1
      /\ \A i \in 1 .. n - 1 : stack'[i].key = stack[i].key
      /\ \A i \in 1 .. n - 2 : stack'[i] = stack[i]
      /\ n > 1 => stack'[n - 1].vals = Append(stack[n - 1].vals, v)
  BY <1>1, DeliverStack, DeliveredType, Zenon
<1>3. DOMAIN stack' = 1 .. n - 1 /\ \A i \in 1 .. n - 1 : stack'[i] \in Frames
  BY <1>2, LenProperties, ElementOfSeq
<1>4. /\ Calm /\ cache'[Top.key] = v
      /\ \A k \in Key : k # Top.key => cache'[k] = cache[k]
  BY DeliverCalm
<1>5. \A k \in Key : Circular(k)' <=> Circular(k)
  BY LayoutStays
<1> HIDE DEF n
<1>6. ASSUME NEW i \in 1 .. n - 1, ~ Circular(stack[i].key)
      PROVE  cache'[stack'[i].key] = NotCached /\ Current(stack[i])'
  <2>1. i \in 1 .. n /\ i # n
    BY <1>1
  <2>2. cache[stack[i].key] = NotCached /\ Current(stack[i]) /\ FrameOK(stack[i])
    BY <1>1, <1>6, <2>1 DEF FramesCurrent, StackIInv
  <2>3. stack[i].key # stack[n].key
    BY <1>1, <2>1 DEF StackIInv, NoReentry
  <2>4. cache'[stack'[i].key] = NotCached
    BY <1>1, <1>2, <1>4, <2>1, <2>2, <2>3
  <2>5. PICK f \in Frames : f = stack[i]
    BY <1>1, <2>1
  <2>6. PICK g \in Frames : g = stack'[i]
    BY <1>3
  <2>7. Current(g)'
    <3>1. CASE i = n - 1
      <4>1. n > 1 /\ i + 1 = n
        BY <1>1, <3>1
      <4>2. g.key = f.key /\ g.vals = Append(f.vals, v)
        BY <1>2, <2>5, <2>6, <3>1, <4>1
      <4>3. WaitsFor(f, Top.key)
        BY <1>1, <2>5, <4>1 DEF StackIInv, Chain, n
      <4>4. PICK r : r = content[f.key].args[Len(f.vals) + 1]
        OBVIOUS
      <4>5. PICK d : d = Top.key
        OBVIOUS
      <4>6. ~ Missing(f.key, r) /\ d = Target(f.key, r)
        BY <4>3, <4>4, <4>5 DEF WaitsFor
      <4>7. ~ Missing(f.key, r)' /\ Target(f.key, r)' = d
        BY <4>6, LayoutStays
      <4>8. cache'[d] = v /\ v # NotCached
        BY <1>4, <4>5, CalcAssumption
      <4>9. Visible(f.key, r)' /\ Sees(f.key, r)' = v
        BY <4>7, <4>8 DEF Visible, Sees, Ready, Peek
      <4>10. QED BY <1>4, <1>6, <2>2, <2>5, <4>2, <4>4, <4>9, CurrentGrows
    <3>2. CASE i # n - 1
      <4>1. i \in 1 .. n - 2
        BY <1>1, <3>2
      <4>2. g = f
        BY <1>2, <2>5, <2>6, <4>1
      <4>3. QED BY <1>4, <1>6, <2>2, <2>5, <4>2, CurrentStays
    <3>3. QED BY <3>1, <3>2
  <2>8. QED BY <2>4, <2>6, <2>7
<1>7. \A i \in 1 .. n - 1 : i \in 1 .. n
  BY <1>1
<1>8. QED BY <1>1, <1>2, <1>3, <1>5, <1>6, <1>7 DEF FramesCurrent

-----------------------------------------------------------------------------
\* What a formula leaves in the cache.

\* The result of a frame that is current is justified.
LEMMA LeaveJustified ==
    ASSUME TypeOK, Calm, NEW f \in Frames, ~ Circular(f.key), FrameOK(f), Current(f),
           ~ Wants(content[f.key], f.vals),
           cache'[f.key] \in Results(content[f.key], f.vals)
    PROVE  Justified(f.key)'
<1>1. PICK args : args = content[f.key].args /\ args = content'[f.key].args
  BY DEF Calm, Layout
<1>2. content' = content
  BY DEF Calm, Layout
<1> DEFINE n == Len(f.vals)
<1>3. \A j \in 1 .. n : Visible(f.key, args[j])' /\ f.vals[j] = Sees(f.key, args[j])'
  BY <1>1, CurrentStays DEF Current
<1>4. n \in Nat /\ f.vals = [j \in 1 .. n |-> f.vals[j]]
  BY LenProperties DEF Frames
<1>5. f.key \in Key /\ Len(args) \in Nat
  BY <1>1, ContentType, LenProperties DEF Frames
<1>6. n \in 0 .. Len(args)
  BY <1>1, <1>4, <1>5 DEF FrameOK
<1>7. [j \in 1 .. n |-> Sees(f.key, args[j])'] = f.vals
  BY <1>3, <1>4
<1> HIDE DEF n
<1>8. QED BY <1>1, <1>2, <1>3, <1>6, <1>7, ZenonT(30) DEF Justified

\* A formula sees #CIRC! only if it is circular.
LEMMA CircSeen ==
    ASSUME TypeOK, CircIsCircular, NEW k \in Key, NEW i \in 1 .. Len(content[k].args),
           Sees(k, content[k].args[i]) = CIRC
    PROVE  Circular(k)
<1> DEFINE ref == content[k].args[i]
           d == Target(k, ref)
<1>1. ~ Missing(k, ref)
  BY CalcAssumption DEF Sees
<1>2. d \in Key /\ d \in Deps(k)
  BY <1>1, TargetInDeps
<1>3. Peek(d) = CIRC
  BY <1>1 DEF Sees
<1>4. content[d].text # CIRC
  BY <1>2, ContentType, CalcAssumption DEF Errors
<1>5. Circular(d)
  BY <1>2, <1>3, <1>4 DEF Peek, CircIsCircular
<1>6. QED BY <1>2, <1>5, CircularSpreads

-----------------------------------------------------------------------------
\* Every step keeps the invariant.

\* The invariant holds at first.
LEMMA InitIInv == Init => IInv
<1> SUFFICES ASSUME Init PROVE IInv
  OBVIOUS
<1>1. TypeOK
  BY InitType
<1>2. stack = <<>> /\ \A k \in Key : cache[k] = NotCached
  BY DEF Init, NoCache
<1>3. DOMAIN stack = {} /\ Len(stack) = 0
  BY <1>2
<1>4. StackIInv
  BY <1>3 DEF StackIInv, NoReentry, Chain, ComputingUncached
<1>5. ValueIInv
  BY <1>2, <1>3, CalcAssumption
     DEF ValueIInv, FramesCurrent, CircIsCircular, AllJustified, Values, Errors
<1>6. QED BY <1>1, <1>4, <1>5 DEF IInv

\* An edit clears every cache; the other operations leave the state unsound.
LEMMA OutsideIInv == ASSUME IInv, Outside PROVE IInv'
<1>1. TypeOK /\ TypeOK'
  BY OutsideType DEF IInv
<1>2. stack = <<>> /\ stack' = <<>>
  BY DEF Outside, Idle, Edit, AddSheet, RenameSheet, RemoveSheet, Recalculate,
         RecalculateSheet
<1>3. DOMAIN stack' = {} /\ Len(stack') = 0
  BY <1>2
<1>4. StackIInv' /\ FramesCurrent'
  BY <1>3 DEF StackIInv, NoReentry, Chain, ComputingUncached, FramesCurrent
<1>5. CASE \E k \in Key, c \in Inputs : Edit(k, c)
  <2>1. \A k \in Key : cache'[k] = NotCached
    BY <1>5 DEF Edit, NoCache
  <2>2. CircIsCircular' /\ AllJustified'
    BY <2>1, CalcAssumption DEF CircIsCircular, AllJustified, Values, Errors
  <2>3. QED BY <1>1, <1>4, <2>2 DEF IInv, ValueIInv
<1>6. CASE Recalculate
  <2>1. UNCHANGED Layout /\ cache' = cache /\ (Sound' => Sound)
    BY <1>6 DEF Recalculate, Layout, Sound
  <2>2. Sound => CircIsCircular' /\ AllJustified'
    BY <1>1, <2>1, IdleCalm, CalmKeepsValues DEF IInv, ValueIInv
  <2>3. QED BY <1>1, <1>4, <2>1, <2>2 DEF IInv, ValueIInv
<1>7. CASE RecalculateSheet \/ \E n \in Names : AddSheet(n) \/ RenameSheet(n) \/ RemoveSheet(n)
  <2>1. ~ Sound'
    BY <1>7 DEF RecalculateSheet, AddSheet, RenameSheet, RemoveSheet, Sound
  <2>2. QED BY <1>1, <1>4, <2>1 DEF IInv
<1>8. QED BY <1>5, <1>6, <1>7 DEF Outside

\* A read from outside keeps the invariant.
LEMMA ReadIInv == ASSUME IInv, NEW k \in Key, Read(k) PROVE IInv'
<1>1. TypeOK /\ TypeOK'
  BY ReadType DEF IInv
<1>2. UNCHANGED Layout /\ stack = <<>> /\ (Sound' => Sound)
  BY DEF Read, Layout, Sound
<1>3. CASE Ready(k)
  <2>1. stack' = <<>> /\ Remember(k)
    BY <1>2, <1>3 DEF Read
  <2>2. DOMAIN stack' = {} /\ Len(stack') = 0
    BY <2>1
  <2>3. StackIInv' /\ FramesCurrent'
    BY <2>2 DEF StackIInv, NoReentry, Chain, ComputingUncached, FramesCurrent
  <2>4. Sound => CircIsCircular' /\ AllJustified'
    BY <1>1, <1>2, <1>3, <2>1, RememberCalm, CalmKeepsValues DEF IInv, ValueIInv
  <2>5. QED BY <1>1, <1>2, <2>3, <2>4 DEF IInv, ValueIInv
<1>4. CASE ~ Ready(k)
  <2>1. stack' = <<Frame(k)>> /\ cache' = cache
    BY <1>4 DEF Read
  <2>2. /\ DOMAIN stack' = 1 .. 1 /\ Len(stack') = 1
        /\ \A i \in 1 .. 1 : stack'[i] = Frame(k)
    BY <2>1
  <2>3. Frame(k).key = k /\ Frame(k).vals = <<>> /\ Len(<<>>) = 0
    BY FrameType
  <2>4. IsFormula(content[k]) /\ cache[k] = NotCached /\ content' = content
    BY <1>2, <1>4 DEF Ready, Layout
  <2>5. Len(content[k].args) >= 0
    BY <1>1, ContentType, LenProperties
  <2>6. NoReentry' /\ Chain' /\ ComputingUncached'
    BY <2>1, <2>2, <2>3, <2>4 DEF NoReentry, Chain, ComputingUncached
  <2>7. \A i \in 1 .. 1 : FrameOK(stack[i])'
    BY <2>2, <2>3, <2>4, <2>5 DEF FrameOK
  <2>8. FramesCurrent'
    <3>1. PICK f : f = Frame(k)
      OBVIOUS
    <3>2. Current(f)'
      BY <2>3, <3>1 DEF Current
    <3>3. QED BY <2>1, <2>2, <2>3, <2>4, <3>1, <3>2 DEF FramesCurrent
  <2>9. Sound => CircIsCircular' /\ AllJustified'
    BY <1>1, <1>2, <2>1, IdleCalm, CalmKeepsValues DEF IInv, ValueIInv
  <2>10. StackIInv'
    BY <2>2, <2>6, <2>7 DEF StackIInv
  <2>11. QED BY <1>1, <1>2, <2>8, <2>9, <2>10 DEF IInv, ValueIInv
<1>5. QED BY <1>3, <1>4

\* The values behind references are fed to the innermost formula.
LEMMA FeedIInv ==
    ASSUME IInv, ReadMissing \/ ReadReady \/ ReadCircular
    PROVE  IInv'
<1>1. TypeOK /\ TypeOK' /\ StackIInv /\ CIRC \in Values /\ REF \in Values
  BY ComputeType DEF IInv, Compute, Values, Errors
<1>2. UNCHANGED Layout /\ content' = content /\ Wanting /\ (Sound' => Sound)
  BY DEF ReadMissing, ReadReady, ReadCircular, Layout, Sound, Asking
<1>3. /\ Top.key \in Key /\ DOMAIN stack = 1 .. Len(stack)
      /\ \A i \in 1 .. Len(stack) : /\ stack[i].key \in Key
                                   /\ IsFormula(content[stack[i].key])
                                   /\ cache[stack[i].key] \in {NotCached, CIRC}
  BY <1>1, <1>2, TopType DEF Wanting, Frames, StackIInv, FrameOK, ComputingUncached
<1>4. \A k \in Key : k \in Computing => IsFormula(content[k])
  BY <1>3 DEF Computing
<1>5. PICK t, r : t = Top.key /\ r = NextRef
  OBVIOUS
<1>6. CASE ReadMissing
  <2>1. stack' = Feed(stack, REF) /\ cache' = cache
    BY <1>6 DEF ReadMissing
  <2>2. StackIInv'
    BY <1>1, <1>2, <1>3, <2>1, FeedKeepsStack
  <2>3. Missing(t, r)'
    BY <1>2, <1>5, <1>6, LayoutStays DEF ReadMissing
  <2>4. Visible(t, r)' /\ REF = Sees(t, r)'
    BY <2>3 DEF Visible, Sees
  <2>5. Calm /\ \A k \in Key : Settles(k)
    BY <1>2, <2>1, IdleCalm
  <2>6. Sound => FramesCurrent'
    BY <1>1, <1>2, <1>5, <2>1, <2>4, <2>5, FeedKeepsFrames DEF IInv, ValueIInv
  <2>7. Sound => CircIsCircular' /\ AllJustified'
    BY <1>1, <2>5, CalmKeepsValues DEF IInv, ValueIInv
  <2>8. QED BY <1>1, <1>2, <2>2, <2>6, <2>7 DEF IInv, ValueIInv
<1>7. CASE ReadReady
  <2>1. PICK d : d = Asked
    OBVIOUS
  <2>2. d \in Key /\ Ready(d) /\ Remember(d) /\ ~ Missing(t, r) /\ d = Target(t, r)
    BY <1>1, <1>5, <1>7, <2>1, AskedType DEF ReadReady, Asking, Asked
  <2>3. PICK v : v = Peek(d)
    OBVIOUS
  <2>4. v \in Values /\ stack' = Feed(stack, v)
    BY <1>1, <1>7, <2>1, <2>2, <2>3, PeekType DEF ReadReady
  <2>5. /\ Calm /\ \A k \in Key : Settles(k)
        /\ \A k \in Key : IsFormula(content[k]) => cache'[k] = cache[k]
    BY <1>1, <1>2, <2>2, RememberCalm
  <2>6. StackIInv'
    BY <1>1, <1>2, <1>3, <2>4, <2>5, FeedKeepsStack
  <2>7. Ready(d)' /\ Peek(d)' = v
    <3>1. content[d].text # NotCached /\ cache' \in [Key -> Values \cup {NotCached}]
      BY <1>1, <2>2, ContentType, CalcAssumption DEF Values, TypeOK
    <3>2. QED BY <1>1, <1>2, <2>2, <2>3, <3>1 DEF Ready, Peek, Remember, TypeOK
  <2>8. ~ Missing(t, r)' /\ Target(t, r)' = d
    BY <1>2, <2>2, LayoutStays
  <2>9. Visible(t, r)' /\ v = Sees(t, r)'
    BY <2>7, <2>8 DEF Visible, Sees
  <2>10. Sound => FramesCurrent'
    BY <1>1, <1>2, <1>4, <1>5, <2>4, <2>5, <2>9, FeedKeepsFrames DEF IInv, ValueIInv
  <2>11. Sound => CircIsCircular' /\ AllJustified'
    BY <1>1, <2>5, CalmKeepsValues DEF IInv, ValueIInv
  <2>12. QED BY <1>1, <1>2, <2>6, <2>10, <2>11 DEF IInv, ValueIInv
<1>8. CASE ReadCircular
  <2>1. /\ Asked \in Key /\ Circular(Asked)
        /\ cache' = [cache EXCEPT ![Asked] = CIRC] /\ stack' = Feed(stack, CIRC)
    BY <1>1, <1>8, AskedType, CycleFound DEF ReadCircular
  <2>2. Calm /\ \A k \in Key : Settles(k)
    BY <1>1, <1>2, <2>1, CircularCalm
  <2>3. \A k \in Key : cache'[k] = cache[k] \/ (Circular(k) /\ cache'[k] = CIRC)
    BY <1>1, <2>1 DEF TypeOK
  <2>4. StackIInv'
    BY <1>1, <1>2, <1>3, <2>1, <2>3, FeedKeepsStack
  <2>5. Circular(t)
    <3>1. PICK m : m = Len(Top.vals) + 1
      OBVIOUS
    <3>2. m \in 1 .. Len(content[t].args) /\ r = content[t].args[m] /\ ~ Missing(t, r)
          /\ Asked = Target(t, r)
      BY <1>1, <1>5, <1>8, <3>1, AskedType DEF ReadCircular, Asking, Asked, NextRef, Formula
    <3>3. Asked \in Deps(t)
      BY <1>1, <1>3, <1>5, <3>2, TargetInDeps
    <3>4. QED BY <1>3, <1>5, <2>1, <3>3, CircularSpreads
  <2>6. Sound => FramesCurrent'
    BY <1>1, <1>2, <1>5, <2>1, <2>2, <2>3, <2>5, FeedKeepsFrames DEF IInv, ValueIInv
  <2>7. Sound => CircIsCircular' /\ AllJustified'
    BY <1>1, <2>2, CalmKeepsValues DEF IInv, ValueIInv
  <2>8. QED BY <1>1, <1>2, <2>4, <2>6, <2>7 DEF IInv, ValueIInv
<1>9. QED BY <1>6, <1>7, <1>8

\* Entering a formula keeps the invariant.
LEMMA EnterIInv == ASSUME IInv, Enter PROVE IInv'
<1>1. TypeOK /\ TypeOK' /\ StackIInv
  BY ComputeType DEF IInv, Compute
<1>2. UNCHANGED Layout /\ cache' = cache /\ (Sound' => Sound)
  BY DEF Enter, Layout, Sound
<1>3. StackIInv'
  BY <1>1, EnterKeepsStack
<1>4. Sound => FramesCurrent'
  BY <1>1, EnterKeepsFrames DEF IInv, ValueIInv
<1>5. Sound => CircIsCircular' /\ AllJustified'
  BY <1>1, <1>2, IdleCalm, CalmKeepsValues DEF IInv, ValueIInv
<1>6. QED BY <1>1, <1>2, <1>3, <1>4, <1>5 DEF IInv, ValueIInv

\* At the recursion limit #CIRC! says nothing about cycles; overflowed tells.
LEMMA OverflowIInv == ASSUME IInv, Overflow PROVE IInv'
<1>1. TypeOK /\ TypeOK' /\ StackIInv /\ CIRC \in Values
  BY ComputeType DEF IInv, Compute, Values, Errors
<1>2. UNCHANGED Layout /\ stack # <<>> /\ Deliver(CIRC) /\ ~ Sound'
  BY DEF Overflow, Layout, Sound, Asking, Wanting
<1>3. StackIInv'
  BY <1>1, <1>2, DeliverKeepsStack
<1>4. QED BY <1>1, <1>2, <1>3 DEF IInv

\* Leaving a formula keeps the invariant: its value is justified by what it read.
LEMMA LeaveIInv == ASSUME IInv, Leave PROVE IInv'
<1>1. TypeOK /\ TypeOK' /\ StackIInv
  BY ComputeType DEF IInv, Compute
<1>2. UNCHANGED Layout /\ stack # <<>> /\ ~ Wants(Formula, Top.vals) /\ (Sound' => Sound)
  BY DEF Leave, Layout, Sound
<1>3. PICK f \in Frames : f = Top
  BY <1>1, <1>2, TopType
<1>4. /\ f.key \in Key /\ f.vals \in Seq(Values) /\ FrameOK(f)
      /\ ~ Wants(content[f.key], f.vals)
  BY <1>1, <1>2, <1>3, TopType DEF StackIInv, Top, Formula, Frames
<1>5. PICK v \in Results(content[f.key], f.vals) : Deliver(v)
  BY <1>3 DEF Leave, Formula
<1>6. v \in Values /\ (v = CIRC => \E i \in 1 .. Len(f.vals) : f.vals[i] = CIRC)
  BY <1>1, <1>4, ResultsType
<1>7. StackIInv'
  BY <1>1, <1>2, <1>5, <1>6, DeliverKeepsStack
<1>8. ASSUME Sound
      PROVE  FramesCurrent' /\ CircIsCircular' /\ AllJustified'
  <2>1. FramesCurrent /\ CircIsCircular /\ AllJustified
    BY <1>8 DEF IInv, ValueIInv
  <2>2. FramesCurrent'
    BY <1>1, <1>2, <1>5, <1>6, <2>1, DeliverKeepsFrames
  <2>3. /\ Calm /\ cache'[f.key] = v
        /\ \A k \in Key : k # f.key => Settles(k)
    BY <1>1, <1>2, <1>3, <1>5, <1>6, <2>1, DeliverCalm DEF Settles
  <2>4. Circular(f.key) \/ Current(f)
    BY <1>1, <1>2, <1>3, <2>1, TopType DEF FramesCurrent, Top
  <2>5. Circular(f.key) \/ Justified(f.key)'
    BY <1>1, <1>4, <2>3, <2>4, LeaveJustified
  <2>6. v = CIRC => Circular(f.key)
    <3>1. ASSUME ~ Circular(f.key), NEW i \in 1 .. Len(f.vals), f.vals[i] = CIRC
          PROVE  FALSE
      <4>1. Sees(f.key, content[f.key].args[i]) = CIRC
        BY <2>4, <3>1 DEF Current
      <4>2. Len(f.vals) \in Nat /\ Len(content[f.key].args) \in Nat
        BY <1>1, <1>4, ContentType, LenProperties
      <4>3. i \in 1 .. Len(content[f.key].args)
        BY <1>4, <4>2 DEF FrameOK
      <4>4. QED BY <1>1, <1>4, <2>1, <3>1, <4>1, <4>3, CircSeen
    <3>2. QED BY <1>6, <3>1
  <2>7. \A k \in Key : \/ Settles(k)
                       \/ Justified(k)' /\ (cache'[k] = CIRC => Circular(k))
    BY <2>3, <2>5, <2>6 DEF Settles
  <2>8. QED BY <1>1, <2>1, <2>2, <2>3, <2>7, CalmKeepsValues
<1>9. QED BY <1>1, <1>2, <1>7, <1>8 DEF IInv, ValueIInv

\* A stutter keeps the invariant.
LEMMA StutterIInv == ASSUME IInv, UNCHANGED vars PROVE IInv'
<1>1. TypeOK /\ TypeOK' /\ UNCHANGED Layout /\ cache' = cache /\ stack' = stack
      /\ (Sound' => Sound)
  BY NextType DEF IInv, vars, Layout, Sound
<1>2. StackIInv'
  BY <1>1, WaitsStays DEF IInv, StackIInv, NoReentry, Chain, ComputingUncached
<1>3. Sound => CircIsCircular' /\ AllJustified'
  BY <1>1, IdleCalm, CalmKeepsValues DEF IInv, ValueIInv
<1>4. Sound => FramesCurrent'
  <2>1. \A f : Current(f)' <=> Current(f)
    <3>1. \A k, ref : (Visible(k, ref)' <=> Visible(k, ref)) /\ Sees(k, ref)' = Sees(k, ref)
      BY <1>1, LayoutStays DEF Visible, Sees, Ready, Peek, Layout
    <3>2. QED BY <1>1, <3>1 DEF Current, Layout
  <2>2. \A k : Circular(k)' <=> Circular(k)
    BY <1>1, LayoutStays
  <2>3. QED BY <1>1, <2>1, <2>2 DEF IInv, ValueIInv, FramesCurrent
<1>5. QED BY <1>1, <1>2, <1>3, <1>4 DEF IInv, ValueIInv

\* Every step keeps the invariant.
LEMMA NextIInv == ASSUME IInv, [Next]_vars PROVE IInv'
BY ReadIInv, FeedIInv, EnterIInv, OverflowIInv, LeaveIInv, OutsideIInv, StutterIInv
   DEF Next, Compute, Outside

-----------------------------------------------------------------------------
\* The inductive invariant holds.
THEOREM CalcInvariant == Spec => []IInv
BY InitIInv, NextIInv, PTL DEF Spec

\* Types are kept, by every edit, read and sheet operation.
THEOREM CalcTypes == Spec => []TypeOK
<1>1. IInv => TypeOK
  BY DEF IInv
<1>2. QED BY CalcInvariant, <1>1, PTL

\* Values agree with their sources, whatever was read before what.
THEOREM Consistency == Spec => []CacheIsConsistent
<1>1. IInv => CacheIsConsistent
  BY DEF IInv, Sound, ValueIInv, CacheIsConsistent
<1>2. QED BY CalcInvariant, <1>1, PTL

\* #CIRC! means a cycle.
THEOREM CircSound == Spec => []CircMeansCycle
<1>1. IInv => CircMeansCycle
  BY DEF IInv, Sound, ValueIInv, CircIsCircular, CircMeansCycle
<1>2. QED BY CalcInvariant, <1>1, PTL

-----------------------------------------------------------------------------
\* Remembering what get_value finds keeps what is cached.
LEMMA RememberStable ==
    ASSUME TypeOK, NEW k \in Key, Remember(k)
    PROVE  \A j \in Key : cache[j] # NotCached => cache'[j] = cache[j]
BY DEF Remember, Peek, TypeOK

\* Only the innermost formula gets a value, and all it can have is #CIRC!.
LEMMA DeliverStable ==
    ASSUME IInv, stack # <<>>, NEW v \in Values, Deliver(v), NEW k \in Key,
           cache[k] # NotCached, cache'[k] # cache[k]
    PROVE  k \in Computing /\ cache[k] = CIRC
<1>1. TypeOK /\ Len(stack) \in DOMAIN stack
  BY TopType DEF IInv
<1>2. k = Top.key
  BY <1>1 DEF Deliver, TypeOK
<1>3. k \in Computing
  BY <1>1, <1>2 DEF Computing, Top
<1>4. cache[k] \in {NotCached, CIRC}
  BY <1>1, <1>2 DEF IInv, StackIInv, ComputingUncached, Top
<1>5. QED BY <1>3, <1>4

\* Reading revises nothing that was read, save the #CIRC! of a cell that is
\* still being computed; only edits and sheet operations clear the cache.
THEOREM Stability == Spec => ReadingIsStable
<1> DEFINE Stable == \A k \in Key : cache[k] # NotCached /\ cache'[k] # cache[k]
                       => cache'[k] = NotCached \/ (k \in Computing /\ cache[k] = CIRC)
<1>1. ASSUME IInv, [Next]_vars
      PROVE  Stable
  <2>1. TypeOK /\ CIRC \in Values
    BY <1>1 DEF IInv, Values, Errors
  <2>2. CASE \E k \in Key : Read(k)
    BY <2>1, <2>2, RememberStable DEF Read
  <2>3. CASE ReadReady
    BY <2>1, <2>3, AskedType, RememberStable DEF ReadReady
  <2>4. CASE ReadCircular
    <3>1. cache[Asked] = NotCached /\ cache' = [cache EXCEPT ![Asked] = CIRC]
      BY <2>4 DEF ReadCircular, Ready
    <3>2. QED BY <2>1, <3>1 DEF TypeOK
  <2>5. CASE ReadMissing \/ Enter
    BY <2>5 DEF ReadMissing, Enter
  <2>6. CASE Overflow
    BY <1>1, <2>1, <2>6, DeliverStable DEF Overflow, Asking, Wanting
  <2>7. CASE Leave
    <3>1. PICK v \in Results(Formula, Top.vals) : Deliver(v)
      BY <2>7 DEF Leave
    <3>2. v \in Values /\ stack # <<>>
      BY <2>1, <2>7, <3>1, TopType, ResultsType DEF Leave, Formula
    <3>3. QED BY <1>1, <3>1, <3>2, DeliverStable
  <2>8. CASE Outside
    <3>1. \A k \in Key : cache'[k] = cache[k] \/ cache'[k] = NotCached
      BY <2>1, <2>8 DEF Outside, Edit, AddSheet, RenameSheet, RemoveSheet, Recalculate,
                        RecalculateSheet, NoCache, TypeOK
    <3>2. QED BY <3>1
  <2>9. CASE UNCHANGED vars
    BY <2>9 DEF vars
  <2>10. QED BY <1>1, <2>2, <2>3, <2>4, <2>5, <2>6, <2>7, <2>8, <2>9
             DEF Next, Compute, Outside
<1>2. IInv /\ [Next]_vars => [Stable]_vars
  BY <1>1
<1>3. QED BY CalcInvariant, <1>2, PTL DEF Spec, ReadingIsStable
=============================================================================
