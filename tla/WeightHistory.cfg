SPECIFICATION Spec
CONSTANTS
    HistoryLimit = 4
    Window = 2
    Margin = 1
    MinReadings = 3
    RateLimit = 3
    ReconnectDelay = 3
    Weights <- MCWeights
    MaxSessions = 3
    MaxTime = 7
INVARIANTS
    TypeOK
    HistoryTracksWeight
    FlowBetweenSlopes
    FlowWithinSession
CHECK_DEADLOCK FALSE
