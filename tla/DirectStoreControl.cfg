\* One conversation, two messages, three controls.
SPECIFICATION Spec
CONSTANTS
    r1 = r1
    r2 = r2
    r3 = r3
    c1 = c1
    c2 = c2
    None = None
    Requests = {r1, r2}
    Conversations = {c1}
    ThreadOf <- OneThread
    Interactions = {i1, i2, i3}
    Capacity = 2
    QueueGlobal = 2
    QueueConversation = 2
SYMMETRY OneThreadSymmetry
INVARIANTS
    ConversationsAgree
PROPERTIES
    StopWins
    RecoveryAsShown
CHECK_DEADLOCK FALSE
