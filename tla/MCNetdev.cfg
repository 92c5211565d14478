SPECIFICATION Spec
CONSTANTS
    main = main
    recv = recv
    Thread <- Threads
    Main = main
    SIZE = 3
    MaxId = 2
    MaxSock = 3
    MaxDgram = 2
    MaxLen = 2
INVARIANTS
    TypeOK
    RefsCounted
    NodesAgree
    CloseNodeAlive
    OnePlace
    DgramInOrder
PROPERTIES
    TableRefinement
CHECK_DEADLOCK FALSE
