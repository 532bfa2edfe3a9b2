SPECIFICATION Spec
CONSTANTS
    LastRow = 1
    Texts = {1, 2}
    Capacity = 2
    MaxCommands = 4
INVARIANTS
    ReplayReproduces
    CleanMeansSaved
CHECK_DEADLOCK FALSE
