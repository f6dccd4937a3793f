SPECIFICATION Spec
CONSTANTS
  Block <- MCBlock
  Val = {0, 1}
  Readers = {}
  Writers = {w}
  Capacity = 2
  SBlock = 1
  Logged <- LoggedOnce
 
INVARIANT ReadsAreCurrent
PROPERTY PinnedUntilDurable
