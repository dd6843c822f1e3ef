SPECIFICATION FairSpec
CONSTANTS
    Callers = {a, b}
    MaxClients = 2
    QueueSize = 3
    NewStyle = TRUE
    Calls <- TaskCalls
    ExclusiveLink = FALSE
INVARIANT RollbackClosesOwnClient
