SPECIFICATION Spec
CONSTANTS
    Requests = {r1, r2}
    MaxBundles = 2
    MaxRestores = 2
SYMMETRY Symmetry
INVARIANTS
    NoReplay
    CutoverKeepsAll
PROPERTIES
    ReleasedFirst
    WholeWhenOpened
