\* Launch, turn/start, a poll and a reply; one event and one stray line.
SPECIFICATION FairSpec
CONSTANTS
    None = None
    Initialize = init
    Initialized = ready
    StartTurn = turn
    Requests = {init, turn, poll}
    Replies = {ready, reply}
    EventCapacity = 2
    MaxReports = 1
    MaxStrays = 1
INVARIANTS
    TransportTypeOK
    FramesWhole
    VerdictTrue
    TurnHeard
PROPERTIES
    CallsEnd
    CloseEndsLease
CHECK_DEADLOCK FALSE
