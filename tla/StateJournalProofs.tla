-------------------------- MODULE StateJournalProofs --------------------------
(***************************************************************************)
(* Proofs about StateJournal, for all sets of keys and values: whatever is *)
(* interrupted, no value is invented and a journal is never out of date.   *)
(***************************************************************************)
EXTENDS StateJournal, TLAPS

\* Everything a state file can get its entries from was passed to set(): the
\* journal, and the entry of the set() under way.
SourcesGiven ==
    /\ journal # Torn => journal \in given
    /\ pc \in {"opened", "journaled", "applied"} => pending \in given

IInv == TypeOK /\ NothingInvented /\ SourcesGiven /\ JournalIsCurrent

\* A dictionary is made of given entries.
MadeOf(d, entries) ==
    \A k \in Keys : d[k] # Unset => [key |-> k, value |-> d[k]] \in entries

\* Nothing is invented: the same, dictionary by dictionary.
LEMMA InventedParts ==
    ASSUME TypeOK
    PROVE  NothingInvented <=> MadeOf(mem, given) /\ (main # Torn => MadeOf(main, given))
<1>1. mem # Torn
  BY JournalAssumption DEF TypeOK
<1>2. QED BY <1>1 DEF NothingInvented, MadeOf

\* Putting a given entry into a dictionary keeps it a dictionary, made of given
\* entries.
LEMMA PutType ==
    ASSUME NEW d \in Dicts, NEW e \in Entries
    PROVE  Put(d, e) \in Dicts
BY DEF Put, Dicts, Entries

\* Putting a given entry into it leaves a dictionary made of given entries.
LEMMA PutMadeOf ==
    ASSUME NEW d \in Dicts, NEW entries, NEW e \in Entries, e \in entries,
           MadeOf(d, entries)
    PROVE  MadeOf(Put(d, e), entries)
<1> SUFFICES ASSUME NEW k \in Keys, Put(d, e)[k] # Unset
             PROVE  [key |-> k, value |-> Put(d, e)[k]] \in entries
  BY DEF MadeOf
<1>1. CASE k = e.key
  <2>1. Put(d, e)[k] = e.value
    BY <1>1 DEF Put, Dicts
  <2>2. e = [key |-> k, value |-> e.value]
    BY <1>1 DEF Entries
  <2>3. QED BY <2>1, <2>2
<1>2. CASE k # e.key
  <2>1. Put(d, e)[k] = d[k]
    BY <1>2 DEF Put, Dicts
  <2>2. QED BY <2>1 DEF MadeOf
<1>3. QED BY <1>1, <1>2

\* The empty dictionary.
LEMMA EmptyMadeOf ==
    ASSUME NEW entries
    PROVE  NoDict \in Dicts /\ MadeOf(NoDict, entries)
BY DEF NoDict, Dicts, MadeOf

\* At first there is no file and nothing in memory.
LEMMA InitIInv == Init => IInv
<1> SUFFICES ASSUME Init PROVE IInv
  OBVIOUS
<1>1. TypeOK
  BY EmptyMadeOf DEF Init, TypeOK
<1>2. NothingInvented
  BY <1>1, InventedParts, EmptyMadeOf DEF Init
<1>3. SourcesGiven /\ JournalIsCurrent
  BY DEF Init, SourcesGiven, JournalIsCurrent
<1>4. QED BY <1>1, <1>2, <1>3 DEF IInv

\* Every step keeps the types.
LEMMA NextType == ASSUME TypeOK, [Next]_vars PROVE TypeOK'
<1> USE DEF TypeOK
<1>1. CASE \E e \in Entries : Set(e)
  BY <1>1 DEF Set
<1>2. CASE Journal \/ JournalFails
  BY <1>2 DEF Journal, JournalFails
<1>3. CASE Apply
  BY <1>3, PutType DEF Apply
<1>4. CASE Unlink
  BY <1>4 DEF Unlink
<1>5. CASE FlushOpens
  BY <1>5 DEF FlushOpens
<1>6. CASE FlushEnds
  BY <1>6 DEF FlushEnds
<1>7. CASE Stop
  BY <1>7, EmptyMadeOf DEF Stop
<1>8. CASE Replay
  <2>1. mem' \in Dicts
    BY <1>8, EmptyMadeOf, PutType DEF Replay
  <2>2. QED BY <1>8, <2>1 DEF Replay
<1>9. CASE LoadUnlinks \/ LoadMain
  BY <1>9 DEF LoadUnlinks, LoadMain
<1>10. CASE UNCHANGED vars
  BY <1>10 DEF vars
<1>11. QED
  BY <1>1, <1>2, <1>3, <1>4, <1>5, <1>6, <1>7, <1>8, <1>9, <1>10 DEF Next

\* Every step keeps the sources given and the journal current.
LEMMA NextSources ==
    ASSUME IInv, [Next]_vars
    PROVE  (SourcesGiven /\ JournalIsCurrent)'
<1> USE DEF IInv, SourcesGiven, JournalIsCurrent
<1>1. CASE \E e \in Entries : Set(e)
  BY <1>1 DEF Set
<1>2. CASE Journal \/ JournalFails \/ Apply \/ Unlink
  BY <1>2 DEF Journal, JournalFails, Apply, Unlink
<1>3. CASE FlushOpens \/ FlushEnds \/ Stop
  BY <1>3 DEF FlushOpens, FlushEnds, Stop
<1>4. CASE Replay \/ LoadUnlinks \/ LoadMain
  BY <1>4 DEF Replay, LoadUnlinks, LoadMain, Running
<1>5. CASE UNCHANGED vars
  BY <1>5 DEF vars
<1>6. QED BY <1>1, <1>2, <1>3, <1>4, <1>5 DEF Next

\* Every step puts only given entries into memory and into the state file.
LEMMA NextInvents == ASSUME IInv, [Next]_vars PROVE NothingInvented'
<1>1. TypeOK /\ TypeOK' /\ MadeOf(mem, given) /\ (main # Torn => MadeOf(main, given))
  BY NextType, InventedParts DEF IInv
<1> SUFFICES MadeOf(mem', given') /\ (main' # Torn => MadeOf(main', given'))
  <2>1. NothingInvented'
        <=> MadeOf(mem', given') /\ (main' # Torn => MadeOf(main', given'))
    <3>1. mem' # Torn
      BY <1>1, JournalAssumption DEF TypeOK
    <3>2. QED BY <3>1 DEF NothingInvented, MadeOf
  <2>2. QED BY <2>1
<1>2. CASE \E e \in Entries : Set(e)
  BY <1>1, <1>2 DEF Set, MadeOf
<1>3. CASE Journal \/ JournalFails \/ Unlink \/ LoadUnlinks
  BY <1>1, <1>3 DEF Journal, JournalFails, Unlink, LoadUnlinks
<1>4. CASE Apply
  BY <1>1, <1>4, PutMadeOf DEF Apply, IInv, SourcesGiven, TypeOK
<1>5. CASE FlushOpens \/ FlushEnds
  BY <1>1, <1>5 DEF FlushOpens, FlushEnds
<1>6. CASE Stop
  BY <1>1, <1>6, EmptyMadeOf DEF Stop
<1>7. CASE Replay
  <2>1. MadeOf(NoDict, given) /\ NoDict \in Dicts
    BY EmptyMadeOf
  <2>2. journal # Torn => MadeOf(Put(NoDict, journal), given)
    BY <1>1, <2>1, PutMadeOf DEF IInv, SourcesGiven, TypeOK
  <2>3. QED BY <1>1, <1>7, <2>1, <2>2 DEF Replay
<1>8. CASE LoadMain
  BY <1>1, <1>8 DEF LoadMain
<1>9. CASE UNCHANGED vars
  BY <1>1, <1>9 DEF vars
<1>10. QED BY <1>2, <1>3, <1>4, <1>5, <1>6, <1>7, <1>8, <1>9 DEF Next

\* The inductive invariant holds.
THEOREM JournalInvariant == Spec => []IInv
<1>1. IInv /\ [Next]_vars => IInv'
  BY NextType, NextSources, NextInvents DEF IInv
<1>2. QED BY InitIInv, <1>1, PTL DEF Spec

\* Every reachable state of the process and of the files is well typed.
THEOREM JournalTypes == Spec => []TypeOK
<1>1. IInv => TypeOK
  BY DEF IInv
<1>2. QED BY JournalInvariant, <1>1, PTL

\* No crash, signal or failed write, and no number of restarts, makes up a value.
THEOREM Invention == Spec => []NothingInvented
<1>1. IInv => NothingInvented
  BY DEF IInv
<1>2. QED BY JournalInvariant, <1>1, PTL

\* Whatever is interrupted, a journal that load() can replay is the entry of the
\* set() that did not return.
THEOREM Currency == Spec => []JournalIsCurrent
<1>1. IInv => JournalIsCurrent
  BY DEF IInv
<1>2. QED BY JournalInvariant, <1>1, PTL
=============================================================================
