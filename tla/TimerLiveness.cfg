SPECIFICATION FairSpec
CONSTANTS
    None = None
    Callers = {a, b}
    NewStyle = TRUE
    TicksPerSecond = 2
    SettleTime = 3
    CommandDelay = 1
    FrameDelay = 1
    MayStall = TRUE
    MayDrop = TRUE
    Buttons <- StartStopButtons
    Reports <- SettingsOnly
    MaxTime = 5
    MaxEvents = 4
    MaxFrames = 1
    MaxCommands = 2
PROPERTY Converges
CHECK_DEADLOCK FALSE
