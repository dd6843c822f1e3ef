SPECIFICATION Spec
CONSTANTS
    Frames <- ThreeFrames
    WrongLengths = {0, 40}
    MaxDamaged = 1
    MaxBreaks = 1
INVARIANTS
    TypeOK
    EveryFrameOnce
    OnlySentDecode
    BufferIsFragment
    LatestValues
CHECK_DEADLOCK FALSE
