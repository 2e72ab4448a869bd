SPECIFICATION Spec
CONSTANTS
    Files <- MCFiles
    PageSize = 2
    PageBytes = 3
    Undefined <- MCUndefined
    Capacity = 2
    MaxRows = 3
    Width = 2
    Budgets <- MCBudgets
    SortWindow = 5
INVARIANTS
    SummaryIsOfTheFile
    SortedPagesTile
    ProblemsAreListed
CHECK_DEADLOCK FALSE
