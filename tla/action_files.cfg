SPECIFICATION Spec
CONSTANTS
    d = d
    e = e
    f = f
    NoPath = NoPath
    Path <- ThreePaths
    Contents <- InOne
    Selected <- OneDir
    Kinds = {"delete", "copy", "move", "link", "mount", "umount", "eject"}
    MaxToggles = 2
    MaxAborts = 1
CHECK_DEADLOCK FALSE
INVARIANTS BytesMeanTheSame AgreedIsDone
