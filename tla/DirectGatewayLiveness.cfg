\* Two conversations, three messages, one slot, one failed call, one crash.
SPECIFICATION FairGatewaySpec
CONSTANTS
    c1 = c1
    c2 = c2
    r1 = r1
    r2 = r2
    r3 = r3
    None = None
    Requests = {r1, r2, r3}
    Conversations = {c1, c2}
    ThreadOf <- TwoThreads
    Interactions = {}
    Capacity = 1
    QueueGlobal = 2
    QueueConversation = 2
    MaxFaults = 1
    MaxCrashes = 1
PROPERTIES
    ExecutionsEnd
    QueueMoves
CHECK_DEADLOCK FALSE
