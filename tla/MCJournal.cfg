SPECIFICATION FairSpec
CONSTANTS
  Block = {0, 1, 2}
  SB = 0
  Val = {0, 1}
  Starts <- Zeros
  Txs <- LongTxs
  MaxLen = 7
  TagsPerDesc = 2
  Settled = TRUE
  MaxSeq = 2
  MaxFaults = 2
INVARIANT RecoverGuardsLog
INVARIANT PlanIsTransaction
INVARIANT LogIsFree
PROPERTY CommitIsAtomic
PROPERTY LogSettles
