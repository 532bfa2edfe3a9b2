SPECIFICATION PtySpec
CONSTANTS
    MaxOutput = 2
    MaxKeys = 3
    Room = 2
    OtherSize = 2
INVARIANTS
    TakesWhatWasWritten
PROPERTIES
    KeysGetThrough
    OutputShown
    ReaderEnds
CHECK_DEADLOCK FALSE
