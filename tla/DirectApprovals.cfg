\* Two requests, calls of one tool or an unknown method, and two commands.
SPECIFICATION FairSpec
CONSTANTS
    a = a
    b = b
    tool = tool
    None = None
    Rpcs = {a, b}
    KindsOf <- KindsOfEach
    Tools = {tool}
    PagesOf <- OnePage
    RiskyTools = {}
    MaxFaults = 1
    MaxAhead = 1
    Workers = {w1}
    Steers = {s1}
    EventCapacity = 1
    MaxCommands = 2
INVARIANTS
    AnsweredOnce
    RecordTellsTruth
PROPERTIES
    AcceptInformed
    GrantInScope
    AskedIsShown
CHECK_DEADLOCK FALSE
