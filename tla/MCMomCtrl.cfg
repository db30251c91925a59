CONSTANTS
    BufNum = 3
    RingBuffer = FALSE
    HighWatermark = 0
    LowWatermark = 0
    CounterMod = 5
    MaxCommands = 3
    MaxLocks = 2
    PromptCallbacks = TRUE
SPECIFICATION Spec
INVARIANTS LockCountsUsers HardwareExclusive FullBuffersAnnounced HardwareServed
PROPERTIES ImplementsExchange CommandsComplete
