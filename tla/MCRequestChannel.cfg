SPECIFICATION Spec
CONSTANTS
    Ids = {1, 2}
    Kinds = {"rows", "profile", "follow", "order", "rebuild"}
    MaxGenerations = 2
    MayHide = TRUE
    MayBroadcast = FALSE
INVARIANTS
    RegistryTracksWork
PROPERTIES
    AnswersAreOfTheView
    EveryRequestEnds
CHECK_DEADLOCK FALSE
