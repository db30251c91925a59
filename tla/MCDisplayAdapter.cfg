CONSTANTS
    Frames = {f1, f2}
    Windows = {w1, w2}
    BufNum = 4
    UndequeueMin = 2
    Faults = {}
SPECIFICATION FairSpec
INVARIANTS TypeOK FramesKnown BuffersGivenBack
PROPERTY CallsReturn
