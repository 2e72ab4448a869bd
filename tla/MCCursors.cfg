SPECIFICATION Spec
CONSTANTS
    Callers = {c1, c2}
    Queries <- MCQueries
    Listing <- MCListing
    Links <- MCLinks
    Large <- MCLarge
    MaxPins = 1
    MaxCursors = 1
    Ttl = 1
    Pace = {1}
    MaxWalks = 2
    MaxAborts = 1
INVARIANTS
    WalksAreComplete
PROPERTIES
    EveryWalkEnds
CHECK_DEADLOCK FALSE
