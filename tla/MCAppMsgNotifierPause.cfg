CONSTANTS
    Frames = {f1}
    MaxPictures = 1
    MaxCommands = 1
    Allowed = {"restart"}
SPECIFICATION FairSpec
PROPERTY CallsReturn
CHECK_DEADLOCK FALSE
