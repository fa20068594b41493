SPECIFICATION Spec
CONSTANTS
    d = d
    e = e
    f = f
    NoPath = NoPath
    Path <- ThreePaths
    Contents <- Flat
    Selected <- TwoDirs
    Kinds = {"umount", "eject"}
    MaxToggles = 1
    MaxAborts = 0
CHECK_DEADLOCK FALSE
INVARIANTS SafeToUnmount
