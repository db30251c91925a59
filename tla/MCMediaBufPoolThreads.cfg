CONSTANTS
    BufNum = 3
    RingBuffer = FALSE
    HighWatermark = 0
    LowWatermark = 0
    CounterMod = 5
    Threads = {consumer, momCtrl}
    MaxHeld = 2
    InTurn = TRUE
SPECIFICATION Spec
INVARIANTS HeldLocked CountedAtRest
PROPERTY ScanEndsAlways
