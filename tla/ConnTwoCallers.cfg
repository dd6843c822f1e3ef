SPECIFICATION Spec
CONSTANTS
    Callers = {a, b}
    MaxClients = 2
    QueueSize = 3
    NewStyle = TRUE
    Calls <- OverlappingCalls
    ExclusiveLink = FALSE
SYMMETRY CallerSymmetry
INVARIANTS
    QueueAccounting
    LockDiscipline
    BatchContiguous
PROPERTY ImplementsChannel
CHECK_DEADLOCK FALSE
