\* Two messages of one conversation and one command; nothing fails.
SPECIFICATION GatewaySpec
CONSTANTS
    c1 = c1
    None = None
    Requests = {r1, r2}
    Conversations = {c1}
    ThreadOf <- OneThread
    Interactions = {i1}
    Capacity = 2
    QueueGlobal = 2
    QueueConversation = 2
    MaxFaults = 0
    MaxCrashes = 0
PROPERTIES
    ControlReachesRun
CHECK_DEADLOCK FALSE
