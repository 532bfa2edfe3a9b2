CONSTANTS
    Keys = {k1, k2}
    Vals = {v1, v2}
    Unset = Unset
    Torn = Torn
SPECIFICATION Spec
INVARIANTS TypeOK NothingInvented JournalIsCurrent
