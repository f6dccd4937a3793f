SPECIFICATION Spec
CONSTANTS
    NDirect = 4
    PPB = 4
    MinBlockSize = 4
    MaxBlockSize = 16
    ByteBits = 8
    MinBlocks = 8
    MaxGroup = 120
    InodesPerGroup = 8
    InodeLimit = 40
    JournalBlocks = 10
    LostFoundBytes = 16
    RecMod = 16
    CountMod = 128
    Requests <- MCRequests
    Labels = {"a", "b"}
INVARIANTS FormatSound CopiesAgree
PROPERTY StructuresDisjoint
CHECK_DEADLOCK FALSE
