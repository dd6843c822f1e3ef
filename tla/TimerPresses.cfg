SPECIFICATION Spec
CONSTANTS
    None = None
    Callers = {a}
    NewStyle = TRUE
    TicksPerSecond = 2
    SettleTime = 3
    CommandDelay = 1
    FrameDelay = 1
    MayStall = FALSE
    MayDrop = FALSE
    Buttons <- StartStopButtons
    Reports <- TimedReports
    MaxTime = 6
    MaxEvents = 4
    MaxFrames = 2
    MaxCommands = 2
PROPERTY PressesTracked
CHECK_DEADLOCK FALSE
