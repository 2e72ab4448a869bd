SPECIFICATION Spec
CONSTANTS
    Ids = {1, 2}
    Kinds = {"rows", "rebuild"}
    MaxGenerations = 2
    MayHide = TRUE
    MayBroadcast = FALSE
PROPERTIES
    PanelCatchesUp
CHECK_DEADLOCK FALSE
