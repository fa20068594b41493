SPECIFICATION FairSpec
CONSTANTS
    a = a
    b = b
    Leaf <- TwoNames
    Hidden <- OneHidden
    Directories = {1}
    TypeFilters <- OnlyDirs
    Window = {w1}
    MaxDetails = 1
    MaxItems = 1
    CloseWhenMissing = TRUE
    Reported <- NoName
PROPERTIES Converges MissingIsClosed
