CONSTANTS
    Frames = {f1, f2}
    MaxPictures = 2
    MaxCommands = 1
    Allowed = {}
SPECIFICATION FairSpec
INVARIANTS NoStaleFrame NoFrameLost VideoQuiet PicturesCounted
PROPERTY CallsReturn
