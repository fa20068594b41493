SPECIFICATION Spec
CONSTANTS
    a = a
    b = b
    Leaf <- TwoNames
    Hidden <- NoName
    Directories = {1}
    TypeFilters <- OnlyDirs
    Window = {w1}
    MaxDetails = 2
    MaxItems = 1
    CloseWhenMissing = TRUE
    Reported <- NoName
INVARIANTS OnlyTheseTypes
