SPECIFICATION Spec
CONSTANTS
    e1 = e1
    e2 = e2
    e3 = e3
    El <- MCEl
    Null = Null
    Uses <- OnlyTake
INVARIANTS
    AddedIsLinked
CHECK_DEADLOCK FALSE
