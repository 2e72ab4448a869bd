SPECIFICATION Spec
CONSTANTS
    Starts <- MCStarts
    Slow = {2}
    Heavy = {1}
    PageSize = 2
    Panes = {"insights"}
    Ids = {1, 2}
    None = None
    Columns = {FALSE}
    MayHide = TRUE
    MaxActs = 2
    MaxMishaps = 1
    MaxEvents = 2
    MaxKept = 1
INVARIANTS
    SpinnersAreHonest
    DrawerIsTheSelection
PROPERTIES
    BarrierHolds
    PanesAreFilled
    
CHECK_DEADLOCK FALSE
