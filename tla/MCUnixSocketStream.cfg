SPECIFICATION Spec
CONSTANTS
    Thread = {t1, t2, t3}
    Socket = {s1, s2, s3}
    Path = {"a"}
    Data <- TwoBytes
    ReadSize = {1, 3}
    Capacity = {1}
    MaxPackets = 2
    NULL = NULL
INVARIANTS
    NoLostPacket
PROPERTIES
    IsChannel
CONSTRAINT OneConnection
SYMMETRY Symmetry
VIEW View
CHECK_DEADLOCK FALSE
