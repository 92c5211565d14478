SPECIFICATION Spec
CONSTANTS
    main = main
    recv = recv
    Thread <- Threads
    Main = main
    SIZE = 3
    MaxId = 2
    MaxSock = 3
    MaxDgram = 2
    MaxLen = 2
CHECK_DEADLOCK FALSE
INVARIANT ClosedIsDeleted
