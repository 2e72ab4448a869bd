SPECIFICATION Spec
CONSTANTS
    PageSize = 2
    PageBytes = 3
    Undefined <- MCUndefined
    Files <- MCFiles
    None = None
    MaxActs = 3
    MaxMishaps = 2
    Follows = TRUE
INVARIANTS
    PagesFollowOneAnother
    RestoreIsNotBlank
PROPERTIES
    UserInputWins
CHECK_DEADLOCK FALSE
