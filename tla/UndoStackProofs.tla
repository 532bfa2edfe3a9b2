--------------------------- MODULE UndoStackProofs ---------------------------
(***************************************************************************)
(* Proofs about UndoStack: its invariants, and that it implements          *)
(* UndoTimeline, for every set of states, labels and keys and every depth. *)
(***************************************************************************)
EXTENDS UndoStack, TLAPS, SequenceTheorems

\* The invariants support each other: a redo keeps HistoryBounded because it
\* moves an entry, and an edit of a burst keeps it because it pushes nothing.
IInv == TypeOK /\ BurstHasNoRedo /\ BurstCanBeUndone /\ HistoryBounded

\* Taking the top off a stack leaves the entries below it.
LEMMA PopType ==
    ASSUME NEW T, NEW s \in Seq(T), s # <<>>
    PROVE  /\ Pop(s) \in Seq(T)
           /\ Len(Pop(s)) = Len(s) - 1
           /\ \A i \in 1 .. Len(s) - 1 : Pop(s)[i] = s[i]
           /\ Top(s) \in T
<1>1. Len(s) \in Nat \ {0}
  BY EmptySeq
<1>2. \A i \in 1 .. Len(s) : s[i] \in T
  BY ElementOfSeq
<1> DEFINE n == Len(s) - 1
           p == SubSeq(s, 1, n)
<1>3. /\ p \in Seq(T)
      /\ Len(p) = n
      /\ \A i \in 1 .. n : p[i] = s[i]
  <2>1. n \in Nat /\ \A i \in 1 .. n : s[i] \in T
    BY <1>1, <1>2
  <2> HIDE DEF n
  <2>2. /\ p \in Seq(T)
        /\ Len(p) = IF 1 <= n THEN n - 1 + 1 ELSE 0
        /\ \A i \in 1 .. n - 1 + 1 : p[i] = s[1 + i - 1]
    BY <2>1, SubSeqProperties
  <2>3. QED BY <2>1, <2>2
<1>4. QED BY <1>1, <1>2, <1>3 DEF Pop, Top

\* How many entries a push drops: none below the limit, the oldest one at it.
Dropped(s) == IF Len(s) < MaxDepth THEN 0 ELSE 1

\* A push keeps a stack of entries within the limit.
LEMMA PushType ==
    ASSUME NEW T, NEW s \in Seq(T), NEW e \in T, Len(s) <= MaxDepth
    PROVE  /\ Push(s, e) \in Seq(T)
           /\ Len(Push(s, e)) = Len(s) + 1 - Dropped(s)
           /\ Push(s, e) # <<>>
           /\ \A i \in 1 .. Len(s) - Dropped(s) : Push(s, e)[i] = s[i + Dropped(s)]
           /\ Push(s, e)[Len(s) + 1 - Dropped(s)] = e
<1> DEFINE d == Dropped(s)
<1> USE StackAssumption DEF Dropped
<1>1. Len(s) \in Nat
  BY LenProperties
<1>2. CASE d = 0
  BY <1>1, <1>2, AppendProperties DEF Push
<1>3. CASE d = 1
  <2>1. s # <<>> /\ Push(s, e) = Append(Tail(s), e)
    BY <1>3, EmptySeq DEF Push
  <2>2. PICK t \in Seq(T) : /\ t = Tail(s)
                            /\ Len(t) = Len(s) - 1
                            /\ \A i \in 1 .. Len(s) - 1 : t[i] = s[i + 1]
    BY <2>1, HeadTailProperties
  <2>3. Push(s, e) = Append(t, e)
    BY <2>1, <2>2
  <2>4. /\ Append(t, e) \in Seq(T) /\ Append(t, e) # <<>>
        /\ Len(Append(t, e)) = Len(t) + 1
        /\ \A i \in 1 .. Len(t) : Append(t, e)[i] = t[i]
        /\ Append(t, e)[Len(t) + 1] = e
    BY AppendProperties
  <2>5. Len(t) = Len(s) - 1 /\ \A i \in 1 .. Len(s) - 1 : t[i] = s[i + 1]
    BY <2>2
  <2>6. QED BY <1>1, <1>3, <2>3, <2>4, <2>5
<1>4. QED BY <1>2, <1>3

\* The invariant holds at first.
THEOREM InitInv == Init => IInv
BY StackAssumption, EmptySeq
   DEF Init, IInv, TypeOK, BurstHasNoRedo, BurstCanBeUndone, HistoryBounded

\* Every step keeps the invariant.
THEOREM StepInv == IInv /\ [Next]_vars => IInv'
<1> SUFFICES ASSUME IInv, [Next]_vars PROVE IInv'
  OBVIOUS
<1> USE StackAssumption
<1> USE DEF IInv, TypeOK, BurstHasNoRedo, BurstCanBeUndone, HistoryBounded
<1>0. Len(undo) \in Nat /\ Len(redo) \in Nat
  BY LenProperties
<1>1. ASSUME NEW s \in States, NEW l \in Labels, NEW k \in Keys \cup {NoKey}, Edit(s, l, k)
      PROVE  IInv'
  <2> DEFINE e == [state |-> live, label |-> l]
  <2>1. CASE Coalesces(k)
    BY <1>1, <2>1 DEF Edit, Checkpoint
  <2>2. CASE ~ Coalesces(k)
    <3>1. /\ undo' = Push(undo, e) /\ redo' = <<>> /\ lastKey' = k
          /\ elapsed' = 0 /\ live' = s
      BY <1>1, <2>2 DEF Edit, Checkpoint
    <3>2. e \in Entry /\ Len(undo) <= MaxDepth
      BY <1>0 DEF Entry
    <3> HIDE DEF e
    <3>3. /\ Push(undo, e) \in Seq(Entry) /\ Push(undo, e) # <<>>
          /\ Len(Push(undo, e)) = Len(undo) + 1 - Dropped(undo)
      BY <3>2, PushType
    <3>4. undo' \in Seq(Entry) /\ Len(undo') <= MaxDepth /\ undo' # <<>>
      BY <1>0, <3>1, <3>2, <3>3 DEF Dropped
    <3>5. redo' \in Seq(Entry) /\ Len(redo') = 0
      BY <3>1, EmptySeq
    <3>6. Len(undo') \in Nat
      BY <3>4, LenProperties
    <3>7. QED BY <3>1, <3>4, <3>5, <3>6
  <2>3. QED BY <2>1, <2>2
<1>2. CASE Undo
  <2>1. Top(undo) \in Entry /\ Pop(undo) \in Seq(Entry) /\ Len(Pop(undo)) = Len(undo) - 1
    BY <1>2, PopType DEF Undo, TakeBack
  <2>2. [state |-> live, label |-> Top(undo).label] \in Entry /\ Top(undo).state \in States
    BY <2>1 DEF Entry
  <2>3. redo' \in Seq(Entry) /\ Len(redo') = Len(redo) + 1
    BY <1>2, <2>2, AppendProperties DEF Undo, TakeBack
  <2>4. QED BY <1>0, <1>2, <2>1, <2>2, <2>3 DEF Undo, TakeBack
<1>3. CASE Redo
  <2>1. Top(redo) \in Entry /\ Pop(redo) \in Seq(Entry) /\ Len(Pop(redo)) = Len(redo) - 1
    BY <1>3, PopType DEF Redo, PutBack
  <2>2. [state |-> live, label |-> Top(redo).label] \in Entry /\ Top(redo).state \in States
    BY <2>1 DEF Entry
  <2>3. undo' \in Seq(Entry) /\ Len(undo') = Len(undo) + 1
    BY <1>3, <2>2, AppendProperties DEF Redo, PutBack
  <2>4. QED BY <1>0, <1>3, <2>1, <2>2, <2>3 DEF Redo, PutBack
<1>4. CASE Clear
  BY <1>4, EmptySeq DEF Clear, Wipe
<1>5. CASE Tick
  BY <1>5 DEF Tick
<1>6. CASE UNCHANGED vars
  BY <1>6 DEF vars
<1>7. QED BY <1>1, <1>2, <1>3, <1>4, <1>5, <1>6 DEF Next

\* Every reachable history is well typed, bounded by max_depth on both sides
\* together, and an open burst has a snapshot to go back to and nothing undone.
THEOREM HistoryInvariant == Spec => []IInv
BY InitInv, StepInv, PTL DEF Spec

-----------------------------------------------------------------------------
\* The refinement, stated first of the values of the stacks before and after.

\* The fields of an entry.
LEMMA EntryFields ==
    ASSUME NEW u \in Seq(Entry)
    PROVE  /\ Len(u) \in Nat
           /\ \A i \in 1 .. Len(u) : u[i].state \in States /\ u[i].label \in Labels
<1>1. Len(u) \in Nat /\ \A i \in 1 .. Len(u) : u[i] \in Entry
  BY LenProperties, ElementOfSeq
<1>2. QED BY <1>1 DEF Entry

\* A function on 1 .. n is a sequence of that length.
LEMMA FunctionIsSeq ==
    ASSUME NEW T, NEW n \in Nat, NEW f \in [1 .. n -> T]
    PROVE  f \in Seq(T) /\ Len(f) = n
OBVIOUS

\* The line and the tags of the two stacks, and their lengths.
LEMMA ViewType ==
    ASSUME NEW u \in Seq(Entry), NEW s \in States, NEW r \in Seq(Entry)
    PROVE  /\ LineOf(u, s, r) \in Seq(States)
           /\ Len(LineOf(u, s, r)) = Len(u) + 1 + Len(r)
           /\ TagsOf(u, r) \in Seq(Labels)
           /\ Len(TagsOf(u, r)) = Len(u) + Len(r)
<1>1. /\ Len(u) \in Nat /\ \A i \in 1 .. Len(u) : u[i].state \in States /\ u[i].label \in Labels
      /\ Len(r) \in Nat /\ \A i \in 1 .. Len(r) : r[i].state \in States /\ r[i].label \in Labels
  BY EntryFields
<1>2. LineOf(u, s, r) \in [1 .. Len(u) + 1 + Len(r) -> States]
  BY <1>1 DEF LineOf
<1>3. TagsOf(u, r) \in [1 .. Len(u) + Len(r) -> Labels]
  BY <1>1 DEF TagsOf
<1>4. Len(u) + 1 + Len(r) \in Nat /\ Len(u) + Len(r) \in Nat
  BY <1>1
<1>5. LineOf(u, s, r) \in Seq(States) /\ Len(LineOf(u, s, r)) = Len(u) + 1 + Len(r)
  BY <1>2, <1>4, FunctionIsSeq
<1>6. TagsOf(u, r) \in Seq(Labels) /\ Len(TagsOf(u, r)) = Len(u) + Len(r)
  BY <1>3, <1>4, FunctionIsSeq
<1>7. QED BY <1>5, <1>6

\* A sequence that consists of a piece of another one and one more element.
LEMMA PieceAndOne ==
    ASSUME NEW T, NEW v \in Seq(T), NEW w \in Seq(T), NEW x \in T,
           NEW d \in Nat, NEW b \in Nat, d <= b, b <= Len(v),
           Len(w) = b - d + 1,
           \A i \in 1 .. b - d : w[i] = v[i + d],
           w[b - d + 1] = x
    PROVE  w = Append(SubSeq(v, d + 1, b), x)
<1>1. Len(v) \in Nat /\ \A i \in d + 1 .. b : v[i] \in T
  BY LenProperties, ElementOfSeq
<1>2. PICK a \in Nat : a = d + 1
  OBVIOUS
<1>3. PICK p \in Seq(T) : /\ p = SubSeq(v, a, b)
                           /\ Len(p) = b - d
                           /\ \A i \in 1 .. b - d : p[i] = v[i + d]
  <2> DEFINE q == SubSeq(v, a, b)
  <2>1. \A i \in a .. b : v[i] \in T
    BY <1>1, <1>2
  <2>2. /\ q \in Seq(T)
        /\ Len(q) = IF a <= b THEN b - a + 1 ELSE 0
        /\ \A i \in 1 .. b - a + 1 : q[i] = v[a + i - 1]
    BY <2>1, SubSeqProperties
  <2> HIDE DEF q
  <2>3. b - a + 1 = b - d /\ \A i \in Int : a + i - 1 = i + d
    BY <1>2
  <2>4. Len(q) = b - d
    BY <1>2, <2>2
  <2>5. ASSUME NEW i \in 1 .. b - d PROVE q[i] = v[i + d]
    <3>1. i \in 1 .. b - a + 1 /\ a + i - 1 = i + d
      BY <1>2, <2>3
    <3>2. q[i] = v[a + i - 1]
      BY <2>2, <3>1
    <3>3. QED BY <3>1, <3>2
  <2>6. QED BY <2>2, <2>4, <2>5 DEF q
<1>4. PICK z \in Seq(T) : /\ z = Append(p, x)
                           /\ Len(z) = Len(p) + 1
                           /\ \A i \in 1 .. Len(p) : z[i] = p[i]
                           /\ z[Len(p) + 1] = x
  <2> DEFINE y == Append(p, x)
  <2>1. /\ y \in Seq(T) /\ Len(y) = Len(p) + 1
        /\ \A i \in 1 .. Len(p) : y[i] = p[i]
        /\ y[Len(p) + 1] = x
    BY AppendProperties
  <2> HIDE DEF y
  <2>2. QED BY <2>1 DEF y
<1>5. Len(z) = Len(w) /\ \A i \in 1 .. Len(w) : z[i] = w[i]
  <2>1. PICK k \in Nat : k = b - d /\ Len(p) = k /\ Len(z) = k + 1 /\ Len(w) = k + 1
    BY <1>3, <1>4
  <2>2. \A i \in 1 .. k : z[i] = w[i]
    BY <1>3, <1>4, <2>1
  <2>3. z[k + 1] = w[k + 1]
    BY <1>4, <2>1
  <2>4. QED BY <2>1, <2>2, <2>3
<1>6. z = w
  BY <1>4, <1>5, SeqEqual
<1>7. QED BY <1>2, <1>3, <1>4, <1>6

\* What checkpoint() does to the two stacks is Record on the line.
LEMMA RecordView ==
    ASSUME NEW u \in Seq(Entry), NEW r \in Seq(Entry), Len(u) <= MaxDepth,
           NEW e \in Entry, NEW t \in States
    PROVE  /\ Len(Push(u, e)) = Len(u) + 1 - Dropped(u)
           /\ LineOf(Push(u, e), t, <<>>) =
                Append(SubSeq(LineOf(u, e.state, r), Dropped(u) + 1, Len(u) + 1), t)
           /\ TagsOf(Push(u, e), <<>>) =
                Append(SubSeq(TagsOf(u, r), Dropped(u) + 1, Len(u)), e.label)
<1>1. PICK n \in Nat, m \in Nat, d \in Nat :
         n = Len(u) /\ m = Len(r) /\ d = Dropped(u) /\ d <= n /\ d <= 1
  BY StackAssumption, LenProperties DEF Dropped
<1>s. PICK s \in States, l \in Labels : s = e.state /\ l = e.label
  BY DEF Entry
<1>2. PICK w \in Seq(Entry) : w = Push(u, e) /\ e.state = s /\ e.label = l
  BY <1>s, PushType
<1>3. /\ w \in Seq(Entry) /\ Len(w) = n + 1 - d
      /\ \A i \in 1 .. n - d : w[i] = u[i + d]
      /\ w[n + 1 - d] = e
  <2>1. /\ Push(u, e) \in Seq(Entry) /\ Len(Push(u, e)) = Len(u) + 1 - Dropped(u)
        /\ \A i \in 1 .. Len(u) - Dropped(u) : Push(u, e)[i] = u[i + Dropped(u)]
        /\ Push(u, e)[Len(u) + 1 - Dropped(u)] = e
    BY PushType
  <2>2. QED BY <1>1, <1>2, <2>1
<1>4. PICK v \in Seq(States) : v = LineOf(u, s, r) /\ Len(v) = n + 1 + m
  BY <1>1, ViewType
<1>5. PICK g \in Seq(Labels) : g = TagsOf(u, r) /\ Len(g) = n + m
  BY <1>1, ViewType
<1>6. PICK z \in Seq(Entry) : z = <<>> /\ Len(z) = 0
  BY EmptySeq
<1>7. PICK vv \in Seq(States) : vv = LineOf(w, t, <<>>) /\ Len(vv) = n + 2 - d
  <2>1. LineOf(w, t, z) \in Seq(States) /\ Len(LineOf(w, t, z)) = Len(w) + 1 + Len(z)
    BY <1>3, ViewType
  <2>2. QED BY <1>3, <1>6, <2>1
<1>8. PICK gg \in Seq(Labels) : gg = TagsOf(w, <<>>) /\ Len(gg) = n + 1 - d
  <2>1. TagsOf(w, z) \in Seq(Labels) /\ Len(TagsOf(w, z)) = Len(w) + Len(z)
    BY <1>3, ViewType
  <2>2. QED BY <1>3, <1>6, <2>1
<1>9. \A i \in 1 .. n + 2 - d : vv[i] = IF i <= n + 1 - d THEN w[i].state ELSE t
  BY <1>3, <1>6, <1>7 DEF LineOf
<1>10. \A i \in 1 .. n + 1 : v[i] = IF i <= n THEN u[i].state ELSE s
  BY <1>1, <1>4 DEF LineOf
<1>11. \A i \in 1 .. n + 1 - d : gg[i] = w[i].label
  BY <1>3, <1>6, <1>8 DEF TagsOf
<1>12. \A i \in 1 .. n : g[i] = u[i].label
  BY <1>1, <1>5 DEF TagsOf
<1>13. vv = Append(SubSeq(v, d + 1, n + 1), t)
  <2>1. PICK b \in Nat : b = n + 1
    OBVIOUS
  <2>2. Len(v) = n + 1 + m /\ Len(vv) = n + 2 - d
    BY <1>4, <1>7
  <2>3. d <= b /\ b <= Len(v) /\ Len(vv) = b - d + 1
    <3>1. d <= n + 1 /\ n + 1 <= n + 1 + m
      BY <1>1
    <3>2. n + 2 - d = b - d + 1
      BY <2>1
    <3>3. QED BY <2>1, <2>2, <3>1, <3>2
  <2>4. \A i \in 1 .. b - d : vv[i] = v[i + d]
    <3> SUFFICES ASSUME NEW i \in 1 .. b - d PROVE vv[i] = v[i + d]
      OBVIOUS
    <3>1. i \in 1 .. n + 1 - d
      BY <2>1
    <3>2. vv[i] = w[i].state
      <4>1. i \in 1 .. n + 2 - d /\ i <= n + 1 - d
        BY <3>1
      <4>2. QED BY <1>9, <4>1
    <3>3. PICK j \in 1 .. n + 1 : j = i + d
      BY <3>1
    <3>4. CASE i = n + 1 - d
      BY <1>2, <1>3, <1>10, <3>2, <3>3, <3>4
    <3>5. CASE i <= n - d
      <4>1. i \in 1 .. n - d
        BY <3>1, <3>5
      <4>2. w[i] = u[j]
        BY <1>3, <3>3, <4>1
      <4>3. v[j] = u[j].state
        BY <1>10, <3>3, <4>1
      <4>4. QED BY <3>2, <3>3, <4>2, <4>3
    <3>6. QED BY <3>1, <3>4, <3>5
  <2>5. vv[b - d + 1] = t
    <3>1. n + 2 - d \in 1 .. n + 2 - d /\ ~ (n + 2 - d <= n + 1 - d)
      BY <1>1, SMTT(30)
    <3>2. vv[n + 2 - d] = t
      BY <1>9, <3>1
    <3>3. b - d + 1 = n + 2 - d
      BY <2>1
    <3>4. QED BY <3>2, <3>3
  <2>6. vv = Append(SubSeq(v, d + 1, b), t)
    BY <2>3, <2>4, <2>5, PieceAndOne
  <2>7. QED BY <2>1, <2>6
<1>14. gg = Append(SubSeq(g, d + 1, n), l)
  <2>1. Len(g) = n + m /\ Len(gg) = n + 1 - d
    BY <1>5, <1>8
  <2>2. d <= n /\ n <= Len(g) /\ Len(gg) = n - d + 1
    BY <1>1, <2>1, SMTT(30)
  <2>3. \A i \in 1 .. n - d : gg[i] = g[i + d]
    <3> SUFFICES ASSUME NEW i \in 1 .. n - d PROVE gg[i] = g[i + d]
      OBVIOUS
    <3>1. PICK j \in 1 .. n : j = i + d
      OBVIOUS
    <3>2. w[i] = u[j]
      BY <1>3, <3>1
    <3>3. gg[i] = w[i].label
      BY <1>11
    <3>4. g[j] = u[j].label
      BY <1>12
    <3>5. QED BY <3>1, <3>2, <3>3, <3>4
  <2>4. gg[n - d + 1] = l
    <3>1. n + 1 - d \in 1 .. n + 1 - d /\ n + 1 - d = n - d + 1
      BY <1>1
    <3>2. gg[n + 1 - d] = w[n + 1 - d].label
      BY <1>11, <3>1
    <3>3. QED BY <1>2, <1>3, <3>1, <3>2
  <2>5. QED BY <2>2, <2>3, <2>4, PieceAndOne
<1>15. QED BY <1>1, <1>2, <1>3, <1>4, <1>5, <1>7, <1>8, <1>13, <1>14

\* The elements of the line and of its labels, n entries below the cursor and
\* m beyond it.
LEMMA ViewElements ==
    ASSUME NEW u \in Seq(Entry), NEW s \in States, NEW r \in Seq(Entry),
           NEW n \in Nat, n = Len(u), NEW m \in Nat, m = Len(r)
    PROVE  /\ \A k \in 1 .. n + 1 + m :
                LineOf(u, s, r)[k] = IF k <= n THEN u[k].state
                                     ELSE IF k = n + 1 THEN s
                                     ELSE r[n + 2 + m - k].state
           /\ \A k \in 1 .. n + m :
                TagsOf(u, r)[k] = IF k <= n THEN u[k].label
                                  ELSE r[n + 1 + m - k].label
BY DEF LineOf, TagsOf

\* undo() moves the cursor along an unchanged line; read from right to left it
\* is what redo() does.
LEMMA MoveView ==
    ASSUME NEW u \in Seq(Entry), NEW r \in Seq(Entry), NEW s \in States, u # <<>>,
           NEW e, e = [state |-> s, label |-> Top(u).label]
    PROVE  /\ LineOf(Pop(u), Top(u).state, Append(r, e)) = LineOf(u, s, r)
           /\ TagsOf(Pop(u), Append(r, e)) = TagsOf(u, r)
           /\ Len(Pop(u)) = Len(u) - 1
<1>1. PICK n \in Nat, m \in Nat : n + 1 = Len(u) /\ m = Len(r)
  <2>1. Len(u) \in Nat \ {0} /\ Len(r) \in Nat
    BY EmptySeq, LenProperties
  <2>2. Len(u) - 1 \in Nat /\ (Len(u) - 1) + 1 = Len(u)
    BY <2>1
  <2>3. QED BY <2>1, <2>2, Zenon
<1>2. PICK p \in Seq(Entry) : /\ p = Pop(u)
                              /\ Len(p) = n
                              /\ \A i \in 1 .. n : p[i] = u[i]
  <2>1. /\ Pop(u) \in Seq(Entry) /\ Len(Pop(u)) = Len(u) - 1
        /\ \A i \in 1 .. Len(u) - 1 : Pop(u)[i] = u[i]
    BY PopType
  <2>2. Len(u) - 1 = n
    BY <1>1
  <2>3. QED BY <2>1, <2>2
<1>3. PICK top \in Entry : top = Top(u) /\ top = u[n + 1]
  BY <1>1, PopType DEF Top
<1>4. e \in Entry /\ e.state = s /\ e.label = top.label /\ top.state \in States
  BY <1>3 DEF Entry
<1>5. PICK q \in Seq(Entry) : /\ q = Append(r, e)
                              /\ Len(q) = m + 1
                              /\ \A i \in 1 .. m : q[i] = r[i]
                              /\ q[m + 1] = e
  <2> DEFINE y == Append(r, e)
  <2>1. /\ y \in Seq(Entry) /\ Len(y) = Len(r) + 1
        /\ \A i \in 1 .. Len(r) : y[i] = r[i]
        /\ y[Len(r) + 1] = e
    BY <1>4, AppendProperties
  <2> HIDE DEF y
  <2>2. QED BY <1>1, <2>1 DEF y
<1>6. PICK n1 \in Nat, m1 \in Nat : n1 = n + 1 /\ m1 = m + 1
  OBVIOUS
<1> DEFINE v == LineOf(p, top.state, q)
           w == LineOf(u, s, r)
           f == TagsOf(p, q)
           g == TagsOf(u, r)
<1>7. v \in Seq(States) /\ Len(v) = n + m + 2 /\ f \in Seq(Labels) /\ Len(f) = n + m + 1
  <2>1. v \in Seq(States) /\ Len(v) = Len(p) + 1 + Len(q) /\ f \in Seq(Labels)
        /\ Len(f) = Len(p) + Len(q)
    BY <1>4, ViewType
  <2> HIDE DEF v, f
  <2>2. Len(p) = n /\ Len(q) = m + 1
    BY <1>2, <1>5
  <2>3. QED BY <2>1, <2>2
<1>8. w \in Seq(States) /\ Len(w) = n + m + 2 /\ g \in Seq(Labels) /\ Len(g) = n + m + 1
  <2>1. w \in Seq(States) /\ Len(w) = Len(u) + 1 + Len(r) /\ g \in Seq(Labels)
        /\ Len(g) = Len(u) + Len(r)
    BY ViewType
  <2> HIDE DEF w, g
  <2>2. Len(u) = n + 1 /\ Len(r) = m
    BY <1>1
  <2>3. QED BY <2>1, <2>2
<1>9. /\ \A k \in 1 .. n + 1 + m1 :
           v[k] = IF k <= n THEN p[k].state
                  ELSE IF k = n + 1 THEN top.state
                  ELSE q[n + 2 + m1 - k].state
      /\ \A k \in 1 .. n + m1 :
           f[k] = IF k <= n THEN p[k].label ELSE q[n + 1 + m1 - k].label
  <2>1. Len(p) = n /\ Len(q) = m1
    BY <1>2, <1>5, <1>6
  <2>2. QED BY <1>4, <2>1, ViewElements
<1>10. /\ \A k \in 1 .. n1 + 1 + m :
            w[k] = IF k <= n1 THEN u[k].state
                   ELSE IF k = n1 + 1 THEN s
                   ELSE r[n1 + 2 + m - k].state
       /\ \A k \in 1 .. n1 + m :
            g[k] = IF k <= n1 THEN u[k].label ELSE r[n1 + 1 + m - k].label
  <2>1. n1 = Len(u) /\ m = Len(r)
    BY <1>1, <1>6
  <2>2. \A k \in 1 .. n1 + 1 + m :
             w[k] = IF k <= n1 THEN u[k].state
                    ELSE IF k = n1 + 1 THEN s
                    ELSE r[n1 + 2 + m - k].state
    BY <2>1 DEF LineOf
  <2>3. \A k \in 1 .. n1 + m :
             g[k] = IF k <= n1 THEN u[k].label ELSE r[n1 + 1 + m - k].label
    BY <2>1 DEF TagsOf
  <2>4. QED BY <2>2, <2>3
<1> HIDE DEF v, w, f, g
<1>11. v = w
  <2>1. ASSUME NEW k \in 1 .. n + m + 2 PROVE v[k] = w[k]
    <3>1. k \in 1 .. n + 1 + m1 /\ k \in 1 .. n1 + 1 + m
      BY <1>6
    <3>2. CASE k <= n
      BY <1>2, <1>6, <1>9, <1>10, <3>1, <3>2, SMTT(30)
    <3>3. CASE k = n + 1
      BY <1>3, <1>6, <1>9, <1>10, <3>1, <3>3
    <3>4. CASE k = n + 2
      <4>1. v[k] = q[m + 1].state
        <5>1. ~ (k <= n) /\ k # n + 1 /\ n + 2 + m1 - k = m + 1
          BY <1>6, <3>4
        <5>2. QED BY <1>9, <3>1, <5>1
      <4>2. w[k] = s
        <5>1. ~ (k <= n1) /\ k = n1 + 1
          BY <1>6, <3>4
        <5>2. QED BY <1>10, <3>1, <5>1
      <4>3. QED BY <1>4, <1>5, <4>1, <4>2
    <3>5. CASE k > n + 2
      <4>1. PICK j \in 1 .. m : j = n + m + 3 - k
        <5>1. n + m + 3 - k \in 1 .. m
          BY <3>5
        <5>2. QED BY <5>1
      <4>2. v[k] = q[j].state
        <5>1. ~ (k <= n) /\ k # n + 1 /\ n + 2 + m1 - k = j
          BY <1>6, <3>5, <4>1
        <5>2. QED BY <1>9, <3>1, <5>1
      <4>3. w[k] = r[j].state
        <5>1. ~ (k <= n1) /\ k # n1 + 1 /\ n1 + 2 + m - k = j
          BY <1>6, <3>5, <4>1
        <5>2. QED BY <1>10, <3>1, <5>1
      <4>4. QED BY <1>5, <4>2, <4>3
    <3>6. QED BY <3>2, <3>3, <3>4, <3>5
  <2>2. QED BY <1>7, <1>8, <2>1, SeqEqual
<1>12. f = g
  <2>1. ASSUME NEW k \in 1 .. n + m + 1 PROVE f[k] = g[k]
    <3>1. k \in 1 .. n + m1 /\ k \in 1 .. n1 + m
      BY <1>6
    <3>2. CASE k <= n
      <4>1. f[k] = p[k].label
        BY <1>9, <3>1, <3>2
      <4>2. k <= n1 /\ k \in 1 .. n
        BY <1>6, <3>2
      <4>3. g[k] = u[k].label
        BY <1>10, <3>1, <4>2
      <4>4. QED BY <1>2, <4>1, <4>2, <4>3
    <3>3. CASE k = n + 1
      <4>1. f[k] = q[m + 1].label
        <5>1. ~ (k <= n) /\ n + 1 + m1 - k = m + 1
          BY <1>6, <3>3
        <5>2. QED BY <1>9, <3>1, <5>1
      <4>2. g[k] = u[n + 1].label
        BY <1>6, <1>10, <3>1, <3>3
      <4>3. QED BY <1>3, <1>4, <1>5, <4>1, <4>2
    <3>4. CASE k > n + 1
      <4>1. PICK j \in 1 .. m : j = n + m + 2 - k
        <5>1. n + m + 2 - k \in 1 .. m
          BY <3>4
        <5>2. QED BY <5>1
      <4>2. f[k] = q[j].label
        <5>1. ~ (k <= n) /\ n + 1 + m1 - k = j
          BY <1>6, <3>4, <4>1
        <5>2. QED BY <1>9, <3>1, <5>1
      <4>3. g[k] = r[j].label
        <5>1. ~ (k <= n1) /\ n1 + 1 + m - k = j
          BY <1>6, <3>4, <4>1
        <5>2. QED BY <1>10, <3>1, <5>1
      <4>4. QED BY <1>5, <4>2, <4>3
    <3>5. QED BY <3>2, <3>3, <3>4
  <2>2. QED BY <1>7, <1>8, <2>1, SeqEqual
<1>13. Len(p) = Len(u) - 1
  BY <1>1, <1>2
<1>14. QED BY <1>2, <1>3, <1>5, <1>11, <1>12, <1>13, SMTT(30) DEF v, w, f, g

\* Putting the top back on restores a stack, and taking off what was just put
\* on does.
LEMMA PopAppend ==
    ASSUME NEW T, NEW s \in Seq(T), NEW x \in T
    PROVE  /\ Append(s, x) \in Seq(T) /\ Append(s, x) # <<>>
           /\ Pop(Append(s, x)) = s
           /\ Top(Append(s, x)) = x
<1>1. PICK n \in Nat : n = Len(s)
  BY LenProperties
<1>2. PICK y \in Seq(T) : /\ y = Append(s, x) /\ y # <<>>
                          /\ Len(y) = n + 1
                          /\ \A i \in 1 .. n : y[i] = s[i]
                          /\ y[n + 1] = x
  <2> DEFINE a == Append(s, x)
  <2>1. /\ a \in Seq(T) /\ a # <<>> /\ Len(a) = Len(s) + 1
        /\ \A i \in 1 .. Len(s) : a[i] = s[i]
        /\ a[Len(s) + 1] = x
    BY AppendProperties
  <2> HIDE DEF a
  <2>2. QED BY <1>1, <2>1 DEF a
<1>3. PICK p \in Seq(T) : p = Pop(y) /\ Len(p) = n /\ \A i \in 1 .. n : p[i] = y[i]
  <2>1. /\ Pop(y) \in Seq(T) /\ Len(Pop(y)) = Len(y) - 1
        /\ \A i \in 1 .. Len(y) - 1 : Pop(y)[i] = y[i]
    BY <1>2, PopType
  <2>2. Len(y) - 1 = n
    BY <1>2
  <2>3. QED BY <2>1, <2>2
<1>4. p = s
  <2>1. Len(p) = Len(s) /\ \A i \in 1 .. Len(p) : p[i] = s[i]
    BY <1>1, <1>2, <1>3
  <2>2. QED BY <2>1, SeqEqual
<1>5. Top(y) = x
  BY <1>2 DEF Top
<1>6. QED BY <1>2, <1>3, <1>4, <1>5

\* A stack without its top, with that top put back, is the stack.
LEMMA AppendPop ==
    ASSUME NEW T, NEW s \in Seq(T), s # <<>>
    PROVE  Append(Pop(s), Top(s)) = s
<1>1. PICK n \in Nat : n + 1 = Len(s)
  <2>1. Len(s) \in Nat \ {0}
    BY EmptySeq
  <2>2. Len(s) - 1 \in Nat /\ (Len(s) - 1) + 1 = Len(s)
    BY <2>1
  <2>3. QED BY <2>2
<1>2. PICK p \in Seq(T), x \in T : /\ p = Pop(s) /\ x = Top(s) /\ x = s[n + 1]
                                   /\ Len(p) = n
                                   /\ \A i \in 1 .. n : p[i] = s[i]
  <2>1. /\ Pop(s) \in Seq(T) /\ Len(Pop(s)) = Len(s) - 1
        /\ \A i \in 1 .. Len(s) - 1 : Pop(s)[i] = s[i]
        /\ Top(s) \in T
    BY PopType
  <2>2. Len(s) - 1 = n /\ Top(s) = s[n + 1]
    BY <1>1 DEF Top
  <2>3. QED BY <2>1, <2>2
<1>3. PICK y \in Seq(T) : /\ y = Append(p, x)
                          /\ Len(y) = n + 1
                          /\ \A i \in 1 .. n : y[i] = p[i]
                          /\ y[n + 1] = x
  <2> DEFINE a == Append(p, x)
  <2>1. /\ a \in Seq(T) /\ Len(a) = Len(p) + 1
        /\ \A i \in 1 .. Len(p) : a[i] = p[i]
        /\ a[Len(p) + 1] = x
    BY AppendProperties
  <2> HIDE DEF a
  <2>2. QED BY <1>2, <2>1 DEF a
<1>4. y = s
  <2>1. ASSUME NEW i \in 1 .. n + 1 PROVE y[i] = s[i]
    <3>1. CASE i <= n
      BY <1>2, <1>3, <3>1
    <3>2. CASE i = n + 1
      BY <1>2, <1>3, <3>2
    <3>3. QED BY <3>1, <3>2
  <2>2. QED BY <1>1, <1>3, <2>1, SeqEqual
<1>5. QED BY <1>2, <1>3, <1>4, SMTT(30)

\* One more edit of a burst replaces the newest state.
LEMMA AmendView ==
    ASSUME NEW u \in Seq(Entry), NEW s \in States, NEW t \in States
    PROVE  LineOf(u, t, <<>>) = [LineOf(u, s, <<>>) EXCEPT ![Len(u) + 1] = t]
<1>1. PICK n \in Nat : n = Len(u)
  BY LenProperties
<1>2. PICK z \in Seq(Entry) : z = <<>> /\ Len(z) = 0
  BY EmptySeq
<1>3. ASSUME NEW x \in States
      PROVE  LineOf(u, x, z) = [i \in 1 .. n + 1 |-> IF i <= n THEN u[i].state ELSE x]
  <2>1. n + 1 + 0 = n + 1 /\ \A i \in 1 .. n + 1 : i <= n \/ i = n + 1
    OBVIOUS
  <2>2. QED BY <1>1, <1>2, <2>1 DEF LineOf
<1>4. LineOf(u, t, z) = [LineOf(u, s, z) EXCEPT ![n + 1] = t]
  <2>1. /\ LineOf(u, t, z) = [i \in 1 .. n + 1 |-> IF i <= n THEN u[i].state ELSE t]
        /\ LineOf(u, s, z) = [i \in 1 .. n + 1 |-> IF i <= n THEN u[i].state ELSE s]
    BY <1>3
  <2>2. PICK g : g = LineOf(u, s, z)
    OBVIOUS
  <2>3. DOMAIN g = 1 .. n + 1 /\ \A i \in 1 .. n + 1 : i <= n => g[i] = u[i].state
    BY <2>1, <2>2
  <2>4. [g EXCEPT ![n + 1] = t] = [i \in 1 .. n + 1 |-> IF i = n + 1 THEN t ELSE g[i]]
    BY <2>1, <2>2, <2>3
  <2>5. [i \in 1 .. n + 1 |-> IF i = n + 1 THEN t ELSE g[i]]
          = [i \in 1 .. n + 1 |-> IF i <= n THEN u[i].state ELSE t]
    BY <2>3
  <2>6. QED BY <2>1, <2>2, <2>4, <2>5
<1>5. QED BY <1>1, <1>2, <1>4

\* An empty history is a line of one state.
LEMMA EmptyView ==
    ASSUME NEW s \in States
    PROVE  LineOf(<<>>, s, <<>>) = <<s>> /\ TagsOf(<<>>, <<>>) = <<>>
<1>1. PICK z \in Seq(Entry) : z = <<>> /\ Len(z) = 0
  BY EmptySeq
<1>2. LineOf(z, s, z) \in Seq(States) /\ Len(LineOf(z, s, z)) = 1 /\ LineOf(z, s, z)[1] = s
  BY <1>1, ViewType DEF LineOf
<1>3. TagsOf(z, z) \in Seq(Labels) /\ Len(TagsOf(z, z)) = 0
  <2>1. /\ LineOf(z, s, z) \in Seq(States)
        /\ TagsOf(z, z) \in Seq(Labels) /\ Len(TagsOf(z, z)) = Len(z) + Len(z)
    BY <1>1, ViewType
  <2>2. QED BY <1>1, <2>1
<1>4. LineOf(z, s, z) = <<s>>
  BY <1>2
<1>5. TagsOf(z, z) = <<>>
  BY <1>3, EmptySeq
<1>6. QED BY <1>1, <1>4, <1>5

-----------------------------------------------------------------------------
\* The initial states map to initial states of the timeline.
THEOREM InitRefines == Init => Timeline!Init
<1> SUFFICES ASSUME Init PROVE Timeline!Init
  OBVIOUS
<1>1. undo = <<>> /\ redo = <<>> /\ live \in States
  BY DEF Init
<1>2. LineOf(undo, live, redo) = <<live>> /\ TagsOf(undo, redo) = <<>>
  BY <1>1, EmptyView
<1>3. Len(undo) + 1 = 1
  BY <1>1
<1>4. QED BY <1>1, <1>2, <1>3 DEF Timeline!Init

\* Every step of the stack is a step of the timeline or a stutter.
THEOREM StepRefines == IInv /\ [Next]_vars => [Timeline!Next]_(Timeline!tvars)
<1> SUFFICES ASSUME IInv, [Next]_vars PROVE [Timeline!Next]_(Timeline!tvars)
  OBVIOUS
<1> USE StackAssumption
<1> DEFINE line == LineOf(undo, live, redo)
           tags == TagsOf(undo, redo)
<1>t. /\ undo \in Seq(Entry) /\ redo \in Seq(Entry) /\ live \in States
      /\ Len(undo) \in Nat /\ Len(redo) \in Nat /\ Len(undo) <= MaxDepth
  BY LenProperties DEF IInv, TypeOK, HistoryBounded
<1>1. ASSUME NEW s \in States, NEW l \in Labels, NEW k \in Keys \cup {NoKey}, Edit(s, l, k)
      PROVE  Timeline!Next
  <2>1. CASE Coalesces(k)
    <3>1. redo = <<>> /\ undo' = undo /\ redo' = redo /\ live' = s
      BY <1>1, <2>1 DEF Edit, Checkpoint, Coalesces, IInv, BurstHasNoRedo
    <3>2. line' = [line EXCEPT ![Len(undo) + 1] = s]
      BY <1>t, <3>1, AmendView
    <3>3. Len(line) = Len(undo) + 1
      <4>1. Len(line) = Len(undo) + 1 + Len(redo)
        BY <1>t, ViewType
      <4>2. Len(redo) = 0
        BY <3>1
      <4> HIDE DEF line
      <4>3. QED BY <1>t, <4>1, <4>2
    <3>4. tags' = tags /\ (Len(undo) + 1)' = Len(undo) + 1
      BY <3>1
    <3>5. Timeline!Amend(s)
      BY <3>2, <3>3, <3>4 DEF Timeline!Amend
    <3>6. QED BY <3>5 DEF Timeline!Next
  <2>2. CASE ~ Coalesces(k)
    <3>1. /\ undo' = Push(undo, [state |-> live, label |-> l]) /\ redo' = <<>> /\ live' = s
      BY <1>1, <2>2 DEF Edit, Checkpoint
    <3>2. /\ Len(undo') = Len(undo) + 1 - Dropped(undo)
          /\ line' = Append(SubSeq(line, Dropped(undo) + 1, Len(undo) + 1), s)
          /\ tags' = Append(SubSeq(tags, Dropped(undo) + 1, Len(undo)), l)
        <4>1. /\ Len(undo') = Len(undo) + 1 - Dropped(undo)
            /\ LineOf(undo', s, <<>>) =
                 Append(SubSeq(LineOf(undo, live, redo), Dropped(undo) + 1, Len(undo) + 1), s)
            /\ TagsOf(undo', <<>>) =
                 Append(SubSeq(TagsOf(undo, redo), Dropped(undo) + 1, Len(undo)), l)
        <5>1. PICK e \in Entry : /\ undo' = Push(undo, e)
                                  /\ e.state = live /\ e.label = l
          BY <1>t, <3>1 DEF Entry
        <5> HIDE DEF line, tags
        <5>2. /\ Len(Push(undo, e)) = Len(undo) + 1 - Dropped(undo)
              /\ LineOf(Push(undo, e), s, <<>>) =
                   Append(SubSeq(LineOf(undo, e.state, redo), Dropped(undo) + 1, Len(undo) + 1), s)
              /\ TagsOf(Push(undo, e), <<>>) =
                   Append(SubSeq(TagsOf(undo, redo), Dropped(undo) + 1, Len(undo)), e.label)
          BY <1>t, RecordView
        <5>3. QED BY <5>1, <5>2
      <4>2. QED BY <3>1, <4>1
    <3>3. Dropped(undo) + 1 = IF Len(undo) + 1 > MaxDepth THEN 2 ELSE 1
      BY <1>t DEF Dropped
    <3>4. PICK d \in Nat, n \in Nat : d = Dropped(undo) /\ n = Len(undo)
      BY <1>t DEF Dropped
    <3>5. Len(undo') + 1 = (n + 1) + 2 - (d + 1) /\ n = (n + 1) - 1
      BY <3>2, <3>4, SMTT(30)
    <3> HIDE DEF line, tags
    <3>6. Timeline!Record(s, l)
      BY <3>2, <3>3, <3>4, <3>5 DEF Timeline!Record, line, tags
    <3>7. QED BY <3>6 DEF Timeline!Next
  <2>3. QED BY <2>1, <2>2
<1>2. CASE Undo
  <2>1. /\ undo # <<>> /\ undo' = Pop(undo) /\ live' = Top(undo).state
        /\ redo' = Append(redo, [state |-> live, label |-> Top(undo).label])
    BY <1>2 DEF Undo, TakeBack
  <2>2. line' = line /\ tags' = tags /\ Len(undo') = Len(undo) - 1
    BY <1>t, <2>1, MoveView
  <2>3. Len(undo) + 1 > 1 /\ Len(undo') + 1 = (Len(undo) + 1) - 1
    <3>1. Len(undo) # 0
      BY <1>t, <2>1, EmptySeq
    <3>2. QED BY <1>t, <2>2, <3>1
  <2>4. Timeline!Back
    BY <2>2, <2>3 DEF Timeline!Back
  <2>5. QED BY <2>4 DEF Timeline!Next
<1>3. CASE Redo
  <2> DEFINE x == [state |-> live, label |-> Top(redo).label]
  <2>1. /\ redo # <<>> /\ redo' = Pop(redo) /\ live' = Top(redo).state
        /\ undo' = Append(undo, x)
    BY <1>3 DEF Redo, PutBack
  <2>2. Top(redo) \in Entry /\ Pop(redo) \in Seq(Entry) /\ Len(Pop(redo)) = Len(redo) - 1
    BY <1>t, <2>1, PopType
  <2>3. /\ x \in Entry /\ x.state = live /\ x.label = Top(redo).label
        /\ Top(redo).state \in States
        /\ Top(redo) = [state |-> Top(redo).state, label |-> Top(redo).label]
    BY <1>t, <2>2 DEF Entry
  <2> HIDE DEF x
  <2>4. /\ undo' \in Seq(Entry) /\ undo' # <<>> /\ Pop(undo') = undo /\ Top(undo') = x
    BY <1>t, <2>1, <2>3, PopAppend
  <2>5. Append(redo', Top(redo)) = redo
    BY <1>t, <2>1, AppendPop
  <2>6. Top(redo) = [state |-> live', label |-> Top(undo').label]
    BY <2>1, <2>3, <2>4
  <2>7. /\ LineOf(Pop(undo'), Top(undo').state, Append(redo', Top(redo)))
             = LineOf(undo', live', redo')
        /\ TagsOf(Pop(undo'), Append(redo', Top(redo))) = TagsOf(undo', redo')
        /\ Len(Pop(undo')) = Len(undo') - 1
    <3>1. redo' \in Seq(Entry) /\ live' \in States
      BY <2>1, <2>2, <2>3
    <3>2. QED BY <2>4, <2>6, <3>1, MoveView
  <2>8. line' = line /\ tags' = tags /\ Len(undo) = Len(undo') - 1
    BY <2>3, <2>4, <2>5, <2>7
  <2>9. Len(undo') + 1 = (Len(undo) + 1) + 1
    <3>1. Len(undo') \in Nat
      BY <2>4, LenProperties
    <3>2. QED BY <1>t, <2>8, <3>1
  <2>10. Len(undo) + 1 < Len(line)
    <3>1. Len(line) = Len(undo) + 1 + Len(redo)
      BY <1>t, ViewType
    <3>2. Len(redo) > 0
      BY <1>t, <2>1, EmptySeq
    <3> HIDE DEF line
    <3>3. QED BY <1>t, <3>1, <3>2
  <2>11. Timeline!Forward
    BY <2>8, <2>9, <2>10 DEF Timeline!Forward
  <2>12. QED BY <2>11 DEF Timeline!Next
<1>4. CASE Clear
  <2>1. undo' = <<>> /\ redo' = <<>> /\ live' = live
    BY <1>4 DEF Clear, Wipe
  <2>2. line' = <<live>> /\ tags' = <<>> /\ Len(undo') + 1 = 1
    BY <1>t, <2>1, EmptyView
  <2>3. line[Len(undo) + 1] = live
    BY <1>t DEF LineOf
  <2>4. Timeline!Forget
    BY <2>2, <2>3 DEF Timeline!Forget
  <2>5. QED BY <2>4 DEF Timeline!Next
<1>5. CASE Tick \/ UNCHANGED vars
  <2>1. undo' = undo /\ redo' = redo /\ live' = live
    BY <1>5 DEF Tick, vars
  <2>2. QED BY <2>1 DEF Timeline!tvars
<1>6. QED BY <1>1, <1>2, <1>3, <1>4, <1>5 DEF Next

\* The two stacks implement the timeline: undo and redo walk one line of
\* states, an edit cuts its future off, a burst is one step.
THEOREM Refinement == Spec => ImplementsTimeline
BY HistoryInvariant, InitRefines, StepRefines, PTL DEF Spec, ImplementsTimeline, Timeline!Spec

-----------------------------------------------------------------------------
\* Every reachable history is well typed.
THEOREM Typed == Spec => []TypeOK
<1>1. IInv => TypeOK
  BY DEF IInv
<1>2. QED BY HistoryInvariant, <1>1, PTL

\* A burst cannot be joined by an edit that leaves redo steps behind it: there
\* are none while one is open.
THEOREM BurstEndsLine == Spec => []BurstHasNoRedo
<1>1. IInv => BurstHasNoRedo
  BY DEF IInv
<1>2. QED BY HistoryInvariant, <1>1, PTL

\* Both stacks together never hold more than MaxDepth steps, redo included.
THEOREM Bounded == Spec => []HistoryBounded
<1>1. IInv => HistoryBounded
  BY DEF IInv
<1>2. QED BY HistoryInvariant, <1>1, PTL

\* In a burst there is something to undo: the step the burst belongs to.
THEOREM BurstUndoable == Spec => []BurstCanBeUndone
<1>1. IInv => BurstCanBeUndone
  BY DEF IInv
<1>2. QED BY HistoryInvariant, <1>1, PTL
=============================================================================
