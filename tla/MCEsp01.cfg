SPECIFICATION Spec
CONSTANTS
    NLINKS = 2
    MaxSock = 3
    MaxConn = 2
    MaxRx = 3
CHECK_DEADLOCK FALSE
INVARIANTS
    OneOwner
    RecvFindsSocket
    TableAgrees
    EndNoticed
