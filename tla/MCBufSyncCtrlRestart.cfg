CONSTANTS
    BufNum = 2
    RingBuffer = FALSE
    HighWatermark = 0
    LowWatermark = 0
    CounterMod = 4
    MaxCommands = 2
    MaxStarts = 2
    CleanRestart = FALSE
SPECIFICATION Spec
INVARIANT ParkedNotRefilled
