SPECIFICATION Spec
CONSTANTS
    Sessions = {1, 2, 3}
    Files <- MCFiles
    Parents <- MCParents
    NoSession = 0
    PageSize = 1
    NoCursor = NoCursor
    Sources = {1, 2}
    Provider <- MCProvider
    Defaults = {1}
    Configured = {2}
    Loads = {1}
    MaxActs = 3
    MaxTransient = 1
    MaxInitialPages = 2
INVARIANTS
    EverySessionIsShown
    CountsAreTrustworthy
PROPERTIES
    RemovedStaysRemoved
    RevealIsCurrent
    RefreshEnds
CHECK_DEADLOCK FALSE
