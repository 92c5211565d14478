SPECIFICATION Spec
CONSTANTS
    Connection <- MCConnection
    Room = 3
    Chunk = 2
    MaxClients = 2
    MaxUnacked = 4
CHECK_DEADLOCK FALSE
INVARIANTS
    ConnectionHonoured
