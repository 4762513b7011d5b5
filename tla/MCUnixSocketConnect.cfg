SPECIFICATION Spec
CONSTANTS
    Thread = {t1, t2, t3}
    Socket = {s1, s2, s3, s4}
    Path = {"a"}
    Data = {}
    ReadSize = {}
    Capacity = {0, 1}
    MaxPackets = 0
    NULL = NULL
INVARIANTS
    RequestsAreWaiters
    NoLostRequest
PROPERTIES
    ConnectPaired
SYMMETRY Symmetry
CHECK_DEADLOCK FALSE
