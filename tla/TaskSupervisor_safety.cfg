\* Three tasks, one leaf besides the granted ones: up to three grandchildren.
SPECIFICATION Spec
CONSTANTS
    NTasks = 3
    Leaves = 1
    Others = 0
    Timeouts = TRUE
INVARIANTS
    TypeOK
    ResultIntegrity
    WriteExclusive
    LinkProtocol
    QuietWhenIdle
    LeavesBalanced
    NoStrayRequest
PROPERTY
    PollGuarantee
