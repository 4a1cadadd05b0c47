\* A waitTasks may name a task of another supervisor as well.  Without
\* timeouts, waitTasks returns only with N completed tasks.
SPECIFICATION FairSpec
CONSTANTS
    NTasks = 2
    Leaves = 1
    Others = 1
    Timeouts = FALSE
INVARIANTS
    CountersAgree
    NeverAbandoned
PROPERTIES
    ImplementsLifecycle
    CallsReturn
    SupervisorEnds
