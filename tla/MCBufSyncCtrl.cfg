CONSTANTS
    BufNum = 2
    RingBuffer = FALSE
    HighWatermark = 0
    LowWatermark = 0
    CounterMod = 4
    MaxCommands = 2
    MaxStarts = 2
    CleanRestart = TRUE
SPECIFICATION FairSpec
INVARIANTS TypeOK LockedOnce NoPairForgotten NothingToCancel
PROPERTY CallsReturn
