CONSTANTS
    BufNum = 3
    RingBuffer = FALSE
    HighWatermark = 2
    LowWatermark = 1
    CounterMod = 4
SPECIFICATION Spec
INVARIANTS TypeOK FreeCounted LocksHonoured QueueShape WatermarksKnown
PROPERTIES ImplementsExchange
