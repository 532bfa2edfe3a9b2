CONSTANTS
    Sheets = {o1, o2, o3}
    Names = {S1, S2}
    Default = S1
    Here = Here
    Pos = {p1}
    p1 = p1
    p2 = p2
    p3 = p3
    S1 = S1
    S2 = S2
    x = x
    Atoms = {x}
    Inputs <- CrossInputs
    None = None
    CIRC = CIRC
    REF = REF
    NAME = NAME
    NotCached = NotCached
    Draws <- Random
    MaxNesting = 2
SYMMETRY AnySheet
SPECIFICATION Spec
INVARIANTS CacheIsConsistent
PROPERTIES ReadingIsStable
