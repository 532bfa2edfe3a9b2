CONSTANTS
    Bodies = {b0, b1, b2}
    Fresh = b0
    WithSheet = {b1, b2}
    Paths = {p}
    NoPath = NoPath
    NoFile = NoFile
    Idle = Idle
    MaxDocs = 2
    Labels = {any}
    Keys = {burst}
    NoKey = NoKey
    MaxDepth = 2
    Window = 1
SPECIFICATION Spec
INVARIANTS SavedMeansSaved
