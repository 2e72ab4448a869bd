SPECIFICATION Spec
CONSTANTS
    MaxAttempts = 2
    MaxRuns = 2
    MaxGenerations = 2
    MaxTasks = 2
INVARIANTS
    RunsAreArmed
    AttemptBudget
PROPERTIES
    RetiredAttemptsAreSilent
    ExhaustionIsSticky
    EveryRunEnds
    ImplementsLifecycle
CHECK_DEADLOCK FALSE
