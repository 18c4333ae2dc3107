\* A two-part answer, one fault and a restart.
SPECIFICATION FairSpec
CONSTANTS
    None = None
    Parts = 2
    Images = 0
    Gets = {}
    MaxFaults = 1
    MaxCrashes = 1
    WithImages = FALSE
    Turns <- SomeTurns
    Slots <- AllSlots
    Media <- AllMedia
    Contents <- Versions
    Callers <- AllCallers
PROPERTIES
    SavedAnswerDelivered
CHECK_DEADLOCK FALSE
