SPECIFICATION Spec
CONSTANTS
    e1 = e1
    e2 = e2
    e3 = e3
    El <- MCEl
    Null = Null
    Uses <- BothUses
INVARIANTS
    FindsPresent
    VisitsLinked
    TakenInOrder
PROPERTIES
    GrowsAtEnd
    SearchEnds
CHECK_DEADLOCK FALSE
