SPECIFICATION Spec
CONSTANTS
    p1 = p1
    p2 = p2
    p3 = p3
    Process = {p1, p2}
    init = p1
    Root = {1, 2, 3, 4}
    Segment = 2
    Value = {0, 1}
    MaxThreads = 2
    MaxReads = 1
    Absent = Absent
INVARIANTS
    StacksMapped
    FaultResolves
PROPERTIES
    Isolation
    
CONSTRAINT ReadOrWrite
CHECK_DEADLOCK FALSE
