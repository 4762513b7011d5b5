SPECIFICATION Spec
CONSTANTS
    u1 = u1
    u2 = u2
    k1 = k1
    k2 = k2
    UserThread = {u1, u2}
    KernelThread = {k1, k2}
    twin <- MCTwin2
    Pid = {p1, p2}
    Device = {d1}
    HandledSignal = {"SIG_ALARM"}
    SIGNAL_QUEUE_SIZE = 1
    MaxAlarms = 1
    NULL = NULL
INVARIANTS
    TypeOK
    QueueExact
    TwinExclusion
    FreedUnreferenced
    ReapedAfterCall
    WaitingExact
    OwnershipExact
PROPERTY
    DeadStaysDead
SYMMETRY Symmetry
CHECK_DEADLOCK FALSE
