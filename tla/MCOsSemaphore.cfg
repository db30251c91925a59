CONSTANTS
    w1 = w1
    p1 = p1
    p2 = p2
    Waiters <- OneWaiter
    Posters <- TwoPosters
    InitCount = 1
    MaxCount = 3
SPECIFICATION Spec
INVARIANT NoLostWakeup
PROPERTIES ImplementsCounter
