SPECIFICATION Spec
CONSTANTS
    a = a
    b = b
    Leaf <- TwoNames
    Hidden <- OneHidden
    Directories = {1}
    TypeFilters <- NoFilter
    Window = {w1, w2}
    MaxDetails = 2
    MaxItems = 1
    CloseWhenMissing = TRUE
    Reported <- NoName
SYMMETRY Symmetry
INVARIANTS TypeOK ScanRuns IndicatorRight UpdateOwed KnownIsShown SettledDisplay
