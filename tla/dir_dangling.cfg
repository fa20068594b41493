SPECIFICATION Spec
CONSTANTS
    a = a
    b = b
    Leaf <- TwoNames
    Hidden <- NoName
    Directories = {1}
    TypeFilters <- NoFilter
    Window = {w1}
    MaxDetails = 2
    MaxItems = 3
    CloseWhenMissing = FALSE
    Reported <- FirstName
INVARIANTS NoDangling
