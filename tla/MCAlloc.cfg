SPECIFICATION Spec
CONSTANTS
  NGroups = 2
  NBits = 3
  Implied <- MCImplied
  Reserved <- MCReserved
  PerTx = 2
  Threads = {a}
INVARIANT NoDoubleAllocation
INVARIANT BitmapTruth
INVARIANT FlagVouches
