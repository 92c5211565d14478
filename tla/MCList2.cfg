SPECIFICATION Spec
CONSTANTS
    e1 = e1
    e2 = e2
    e3 = e3
    El <- MCEl
    Null = Null
SYMMETRY ElSymmetry
INVARIANTS
    TypeOK
    Linked
    LookupsAgree
    EachVisitsAll
