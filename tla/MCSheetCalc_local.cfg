CONSTANTS
    Sheets = {o1}
    Names = {S1}
    Default = S1
    Here = Here
    Pos = {p1, p2, p3}
    p1 = p1
    p2 = p2
    p3 = p3
    S1 = S1
    S2 = S2
    x = x
    Atoms = {x}
    Inputs <- LocalInputs
    None = None
    CIRC = CIRC
    REF = REF
    NAME = NAME
    NotCached = NotCached
    Draws <- Random
    MaxNesting = 3
SPECIFICATION FairSpec
INVARIANTS TypeOK CacheIsConsistent CircMeansCycle
PROPERTIES ReadReturns
