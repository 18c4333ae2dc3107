\* Two conversations, two messages in the first, one place for an execution.
SPECIFICATION Spec
CONSTANTS
    r1 = r1
    r2 = r2
    r3 = r3
    c1 = c1
    c2 = c2
    None = None
    Requests = {r1, r2, r3}
    Conversations = {c1, c2}
    ThreadOf <- TwoThreads
    Interactions = {i1}
    Capacity = 1
    QueueGlobal = 2
    QueueConversation = 2
SYMMETRY TwoThreadsSymmetry
INVARIANTS
    RecordsAgree
    NoOvertaking
    LimitsHeld
    ContextKept
PROPERTIES
    ImplementsLedger
CHECK_DEADLOCK FALSE
