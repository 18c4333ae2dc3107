\* One conversation, two messages, two commands, one failed call, one crash.
SPECIFICATION GatewaySpec
CONSTANTS
    c1 = c1
    None = None
    Requests = {r1, r2}
    Conversations = {c1}
    ThreadOf <- OneThread
    Interactions = {i1, i2}
    Capacity = 2
    QueueGlobal = 2
    QueueConversation = 2
    MaxFaults = 1
    MaxCrashes = 1
SYMMETRY OneThreadSymmetry
INVARIANTS
    RunningTurnHeld
    InFlightOwned
    InterruptAimed
PROPERTIES
    ExecutedOnce
    ButtonAsShown
CHECK_DEADLOCK FALSE
