CONSTANTS
    RootMax = 2
    NodeMax = 3
    InitMaxLen = 3
    MaxDepth = 2
    NBlocks = 24
    GroupSize = 16
    NDirect = 1
    PPB = 2
    BS = 2
    InlineCeil = 2
    InlineRoom = 1
    LogLength = 20
    TagsPerDesc = 4
    MemoryBound = 8
    MaxOps = 4
    Starts <- MCStarts
    Writes <- MCWrites
    Sizes <- MCSizes
    Ranges <- MCRanges
    Prealloc <- MCPrealloc
    Replaces <- MCReplaces
SPECIFICATION Spec
INVARIANT ReadsBack
INVARIANT BlocksAccounted
INVARIANT ChunkFits
CHECK_DEADLOCK FALSE
