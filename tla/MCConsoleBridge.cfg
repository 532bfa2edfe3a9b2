SPECIFICATION Spec
CONSTANTS
    MaxChanges = 2
    Littering = {"console", "macro"}
INVARIANTS
    AnswersMatch
    NoOrphans
PROPERTIES
    LossesOverlap
    CommandsEnd
CHECK_DEADLOCK FALSE
