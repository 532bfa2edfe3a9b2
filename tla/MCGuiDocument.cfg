CONSTANTS
    Bodies = {b0, b1}
    Fresh = b0
    WithSheet = {b1}
    Paths = {p}
    NoPath = NoPath
    NoFile = NoFile
    Idle = Idle
    MaxDocs = 2
    Labels = {any}
    Keys = {burst}
    NoKey = NoKey
    MaxDepth = 1
    Window = 1
SPECIFICATION FairSpec
INVARIANTS TypeOK SavedUnlessTouched HistoryStaysInDocument ResultMeetsCallback
PROPERTIES BusyEnds
