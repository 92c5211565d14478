SPECIFICATION ClientSpec
CONSTANTS
    t1 = t1
    t2 = t2
    Thread <- MCThreads
    Main = t1
    MaxReq = 2
    MaxLines = 2
    MaxUnsol = 1
    Remote = TRUE
    Mute = TRUE
    Spurious = TRUE
CHECK_DEADLOCK FALSE
INVARIANTS
    TypeOK
    NoLostAnswer
    ClientPayload
PROPERTIES
    OwnResult
    ClientOutcome
    ClientReturns
