CONSTANTS
    Engines = {e1}
    MaxCommands = 4
    Locks = {"AEC", "AWB"}
    PromptEngine = TRUE
    PromptHandler = TRUE
SPECIFICATION FairSpec
INVARIANTS TypeOK InterfaceInStep AssertionsHold RoomInQueue
PROPERTIES LocksAsAsked CallsReturn
CHECK_DEADLOCK FALSE
