SPECIFICATION FairSpec
CONSTANTS
  N = 3
  TabOf <- MCTabOf
  Doubtful = {2}
  Pointers = {2}
  MaxCuts = 2
INVARIANT NothingStranded
INVARIANT NamedFileKept
INVARIANT ReclaimedOnce
PROPERTY RecoveryEnds
