CONSTANTS
    States = {s1, s2, s3}
    Labels = {edit, paste}
    Keys = {burst}
    NoKey = NoKey
    MaxDepth = 3
    Window = 2
SPECIFICATION Spec
INVARIANTS TypeOK BurstHasNoRedo HistoryBounded BurstCanBeUndone
PROPERTIES ImplementsTimeline
