SPECIFICATION Spec
CONSTANTS
    Ids = {1}
    Kinds = {"rebuild"}
    MaxGenerations = 3
    MayHide = TRUE
    MayBroadcast = TRUE
PROPERTIES
    AwaitedIsShown
CHECK_DEADLOCK FALSE
