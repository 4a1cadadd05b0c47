SPECIFICATION Spec
CONSTANTS
    NTasks = 3
    Repeats = FALSE
INVARIANTS
    VectorsFormatted
PROPERTY
    ImplementsWaitingList
