SPECIFICATION Spec
CONSTANTS
    a = a
    b = b
    Leaf <- TwoNames
    Hidden <- NoName
    Directories = {1}
    TypeFilters <- NoFilter
    Window = {w1}
    MaxDetails = 1
    MaxItems = 3
    CloseWhenMissing = TRUE
    Reported <- FirstName
INVARIANTS PendingNotified NoDangling NamesRight
