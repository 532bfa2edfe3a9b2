---------------------------- MODULE StateJournal ----------------------------
(***************************************************************************)
(* abax/state.py: the runtime state in memory, its file, and the journal   *)
(* that StateManager.set writes around every change.  A crash may come     *)
(* between any two steps.  SIGTERM runs flush() wherever the process is,   *)
(* inside set and inside load too (the constructor registers it), and      *)
(* atexit runs it before a clean exit.  A file being rewritten is torn     *)
(* until the write ends.                                                   *)
(***************************************************************************)
CONSTANTS
    Keys, Vals,
    Unset,      \* no value for a key
    Torn        \* a file truncated and not rewritten, or not there at all

Dicts   == [Keys -> Vals \cup {Unset}]
Entries == [key : Keys, value : Vals]
NoDict  == [k \in Keys |-> Unset]

ASSUME JournalAssumption == Unset \notin Vals /\ Torn \notin Dicts \cup Entries

VARIABLES
    mem,        \* _state, when the process runs
    main,       \* the state file
    journal,    \* the journal file
    pc,         \* where the process is
    pending,    \* the entry of the set() under way
    flushing,   \* flush() has truncated the state file
    given,      \* history: the entries passed to set()
    owed,       \* history: the entry of a set() that crashed after its journal
    saved       \* history: the keys a completed flush() has written

vars == <<mem, main, journal, pc, pending, flushing, given, owed, saved>>

TypeOK == /\ mem \in Dicts
          /\ main \in Dicts \cup {Torn}
          /\ journal \in Entries \cup {Torn}
          /\ pc \in {"down", "loading", "unlinked", "up", "opened", "journaled", "applied"}
          /\ pending \in Entries
          /\ flushing \in BOOLEAN
          /\ given \subseteq Entries
          /\ owed \subseteq Entries
          /\ saved \subseteq Keys

Init == /\ mem = NoDict /\ main = Torn /\ journal = Torn
        /\ pc = "down"
        /\ pending \in Entries
        /\ flushing = FALSE
        /\ given = {}
        /\ owed = {}
        /\ saved = {}

-----------------------------------------------------------------------------
Put(d, e) == [d EXCEPT ![e.key] = e.value]

Running == pc # "down" /\ ~ flushing

\* set(key, value): write the journal, apply, unlink.
Set(e) == /\ Running /\ pc = "up"
          /\ pc' = "opened"
          /\ journal' = Torn
          /\ pending' = e
          /\ given' = given \cup {e}
          /\ owed' = {}
          /\ UNCHANGED <<mem, main, flushing, saved>>

Journal == /\ Running /\ pc = "opened"
           /\ pc' = "journaled"
           /\ journal' = pending
           /\ UNCHANGED <<mem, main, pending, flushing, given, owed, saved>>

\* write_text raises (disk full): the caller gets the exception.
JournalFails == /\ Running /\ pc = "opened"
                /\ pc' = "up"
                /\ UNCHANGED <<mem, main, journal, pending, flushing, given, owed, saved>>

Apply == /\ Running /\ pc = "journaled"
         /\ pc' = "applied"
         /\ mem' = Put(mem, pending)
         /\ UNCHANGED <<main, journal, pending, flushing, given, owed, saved>>

\* Mutant of Unlink: the journal stays.
UnlinkForgotten ==
    /\ Running /\ pc = "applied"
    /\ pc' = "up"
    /\ UNCHANGED <<mem, main, journal, pending, flushing, given, owed, saved>>

Unlink == /\ Running /\ pc = "applied"
          /\ pc' = "up"
          /\ journal' = Torn
          /\ UNCHANGED <<mem, main, pending, flushing, given, owed, saved>>

\* flush(), from SIGTERM, atexit or the GUI; its failure is swallowed.
FlushOpens == /\ Running
              /\ flushing' = TRUE
              /\ main' = Torn
              /\ UNCHANGED <<mem, journal, pc, pending, given, owed, saved>>

FlushEnds == /\ flushing
             /\ flushing' = FALSE
             /\ \/ main' = mem /\ saved' = saved \cup {k \in Keys : mem[k] # Unset}
                \/ UNCHANGED <<main, saved>>
             /\ UNCHANGED <<mem, journal, pc, pending, given, owed>>

\* A crash, or the exit that follows a flush.
Stop == /\ pc # "down"
        /\ pc' = "down"
        /\ mem' = NoDict
        /\ flushing' = FALSE
        /\ owed' = IF pc = "journaled" THEN {pending} ELSE {}
        /\ UNCHANGED <<main, journal, pending, given, saved>>

\* Mutant of Replay: of a torn journal the part that is there is replayed.
ReplayTorn ==
    /\ pc = "down"
    /\ pc' = "loading"
    /\ \E e \in Entries : /\ journal # Torn => e = journal
                         /\ e.key = pending.key
                         /\ mem' = Put(NoDict, e)
    /\ UNCHANGED <<main, journal, pending, flushing, given, owed, saved>>

\* load(): the constructor and the replay of a readable journal, then its
\* removal, then the state file, which replaces what was replayed.
Replay == /\ pc = "down"
          /\ pc' = "loading"
          /\ mem' = IF journal = Torn THEN NoDict ELSE Put(NoDict, journal)
          /\ UNCHANGED <<main, journal, pending, flushing, given, owed, saved>>

LoadUnlinks == /\ Running /\ pc = "loading"
               /\ pc' = "unlinked"
               /\ journal' = Torn
               /\ UNCHANGED <<mem, main, pending, flushing, given, owed, saved>>

\* Mutant of LoadMain: a torn state file is taken for a good one.
LoadTorn == /\ Running /\ pc = "unlinked"
            /\ pc' = "up"
            /\ mem' = main
            /\ UNCHANGED <<main, journal, pending, flushing, given, owed, saved>>

LoadMain == /\ Running /\ pc = "unlinked"
            /\ pc' = "up"
            /\ mem' = IF main = Torn THEN mem ELSE main
            /\ UNCHANGED <<main, journal, pending, flushing, given, owed, saved>>

Next == \/ \E e \in Entries : Set(e)
        \/ Journal \/ JournalFails \/ Apply \/ Unlink
        \/ FlushOpens \/ FlushEnds
        \/ Stop
        \/ Replay \/ LoadUnlinks \/ LoadMain

Spec == Init /\ [][Next]_vars

-----------------------------------------------------------------------------
\* Whatever is interrupted, and however often, no key ever has a value that
\* was not given to set() for that key: a torn journal is not replayed and a
\* torn state file is not read.
NothingInvented ==
    \A d \in {mem, main} \ {Torn} : \A k \in Keys :
        d[k] # Unset => [key |-> k, value |-> d[k]] \in given

\* A journal that can be replayed belongs to a set() that did not return: it
\* can never put an older value over a newer one.
JournalIsCurrent ==
    journal # Torn => journal = pending /\ pc \notin {"up", "opened", "unlinked"}

-----------------------------------------------------------------------------
\* "Journal first, then apply - survives a crash between the two" (state.py:33).
JournaledSetSurvives == pc = "up" => \A e \in owed : mem[e.key] = e.value

\* "survives crashes" (state.py:1): a key that was in the state file is still
\* there after any number of restarts.
SavedKeysSurvive == pc = "up" => \A k \in saved : mem[k] # Unset
=============================================================================
