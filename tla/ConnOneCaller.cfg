SPECIFICATION Spec
CONSTANTS
    Callers = {a}
    MaxClients = 3
    QueueSize = 3
    NewStyle = TRUE
    Calls <- AllCalls
    ExclusiveLink = TRUE
INVARIANTS
    TypeOK
    QueueAccounting
    LockDiscipline
    BatchContiguous
    DisconnectIsClean
    LinksAccountedFor
    HandshakeFirst
    QuietWhenDisconnected
PROPERTY ImplementsChannel
