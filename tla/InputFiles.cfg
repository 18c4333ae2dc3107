\* Three messages, two slots, room for one or two of them in the budget.
SPECIFICATION Spec
CONSTANTS
    m1 = m1
    m2 = m2
    m3 = m3
    Messages = {m1, m2, m3}
    ThreadOf <- TwoThreads
    Kinds <- SomeKinds
    Input <- SomeInput
    Temp <- SomeTemp
    Slots = 2
    MaxChanges = 1
    MaxRestarts = 1
INVARIANTS
    BudgetKept
    SentAsAdmitted
CHECK_DEADLOCK FALSE
