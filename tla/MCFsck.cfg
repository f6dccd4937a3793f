SPECIFICATION Spec
CONSTANTS
    InodeMax = 7
    MAX_LINKS = 4
    DirNlink = TRUE
    NotUtf8 = {21}
    Replaced = 22
    FsckStarts <- MCStarts
    Harm <- MCHarm
    Bounds <- MCBounds
    MaxHarm = 3
    MaxRuns = 2
INVARIANTS NothingLost NothingLaundered Settles
PROPERTY NeverUndercounts
CHECK_DEADLOCK FALSE
