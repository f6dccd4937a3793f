CONSTANTS
    RootMax = 2
    NodeMax = 4
    InitMaxLen = 4
    MaxDepth = 2
    NBlocks = 20
    GroupSize = 20
    NDirect = 1
    PPB = 2
    Names = {"a", "b", "c", "d", "f"}
    Hash <- MCHash
    Size <- MCSize
    BlockUnits = 6
    HeadUnits = 1
    ContUnits = 1
    RootLimit = 2
    NodeLimit = 2
    Inos = {11, 12, 13, 14, 15, 16}
    Parents = {2, 3}
    DirStarts <- MCStarts
    MaxOps = 2
SPECIFICATION Spec
INVARIANT RenameFindsSource
CHECK_DEADLOCK FALSE
