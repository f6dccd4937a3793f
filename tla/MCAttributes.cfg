SPECIFICATION AllSpec
CONSTANTS
    Files = {1, 2, 3}
    Blocks = {1, 2, 3}
    Attrs = {"a", "c", "bad"}
    Class <- MCClass
    NameUnits <- MCNameUnits
    Values = {"empty", "small", "big"}
    ValueUnits <- MCValueUnits
    FixedUnits = 4
    AreaUnits = 16
    BlockUnits = 20
    XattrStarts <- MCStarts
    HalfEra = 8
    Half = 2
    NsecPerSec = 4
    Flags = {"extents", "nodump"}
    UserFlags = {"nodump"}
    Perms = {"ro"}
    Clocks = {20}
    Times <- MCTimes
    Statted = {3}
    Owners = {2, 3}
    StatStarts <- MCStats
    MaxOps = 3
INVARIANTS AttributesAsSet RefsExact StatAsSet
CHECK_DEADLOCK FALSE
