SPECIFICATION FairSpec
CONSTANTS
    main = main
    p1 = p1
    p2 = p2
    p3 = p3
    Proc = {p1, p2, p3}
    Main = main
    Parent <- NestedParent
    NCores = 1
    QueueSlots = 1
    MaxCores = 2
    Slow = TRUE
    Timed = {main}
    Subtree = 1
INVARIANTS
    TypeOK
    CoresConserved
    QueueConserved
    WithinCores
    NoHoldAndWait
PROPERTIES
    CloseEnds
    MainReturns
CHECK_DEADLOCK FALSE
