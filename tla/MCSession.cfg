SPECIFICATION Spec
CONSTANTS
    FollowCallers = {f1}
    PanelCallers = {}
    CommandCallers = {d1}
    Profiles = {generic, codex}
    Generic = generic
    MaxEngines = 3
INVARIANTS
    EnginesAreAccountedFor
    SuggestionsAreOfTheEngine
PROPERTIES
    StableReplacesTheNamed
    EveryCallerIsAnswered
    WantedTailPassIsMade
    IndexingIsTakenUp
    ImplementsRegister
CHECK_DEADLOCK FALSE
