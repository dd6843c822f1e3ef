SPECIFICATION FairSpec
CONSTANTS
    Callers = {a}
    MaxClients = 2
    QueueSize = 3
    NewStyle = TRUE
    Calls <- TaskCalls
    ExclusiveLink = TRUE
PROPERTY NoEarlyReconnect
