SPECIFICATION Spec
CONSTANTS
    p1 = p1
    p2 = p2
    p3 = p3
    Process = {p1, p2, p3}
    init = p1
    Root = {1, 2, 3, 4}
    Segment = 1
    Value = {0}
    MaxThreads = 1
    MaxReads = 0
    Absent = Absent
INVARIANTS
    ReferencesExact
    TableAgrees
SYMMETRY Symmetry
CHECK_DEADLOCK FALSE
