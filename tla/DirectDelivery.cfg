\* Two parts, an image, a card and one /get; two faults and a restart.
SPECIFICATION FairSpec
CONSTANTS
    None = None
    Parts = 2
    Images = 1
    Gets = {g1}
    MaxFaults = 2
    MaxCrashes = 1
    WithImages = TRUE
    Turns <- SomeTurns
    Slots <- AllSlots
    Media <- AllMedia
    Contents <- Versions
    Callers <- AllCallers
INVARIANTS
    PostedOnce
    ConfirmedIsShown
    AnswerInOrder
    OutcomeTrue
PROPERTIES
    KeptImagesPosted
CHECK_DEADLOCK FALSE
