\* Three interactions, one of them delivered again, and a restart.
SPECIFICATION Spec
CONSTANTS
    m1 = m1
    m2 = m2
    low = low
    mid = mid
    high = high
    k1 = k1
    k2 = k2
    None = None
    Models = {m1, m2}
    Efforts = {low, mid, high}
    Cursors = {k1, k2}
    Defaults <- NewPair
    Listings <- SomeListings
    LastInteraction = 3
    MaxPages = 3
    MaxRepeats = 1
    MaxCrashes = 1
INVARIANTS
    NewestWins
    UnofferedOnlyIfStale
    OnlyOffered
