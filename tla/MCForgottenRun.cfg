SPECIFICATION Spec
CONSTANTS
    MaxAttempts = 2
    MaxRuns = 2
    MaxGenerations = 2
    MaxTasks = 2
PROPERTY NoRunIsForgotten
CHECK_DEADLOCK FALSE
