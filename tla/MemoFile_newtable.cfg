\* The memo file of a new table: NewTable starts with NextFree = 0.
CONSTANTS
  None = None
  Garbled = Garbled
  Err = Err
  NumRows = 1
  Lengths = {0, 1, 3}
  Signs = {1}
  FileHead = 2
  BlockSize = 2
  FirstFree = 0
  GrowInPlace = FALSE
  ReadsOverlap = FALSE
  MaxOps = 2
  MaxFaults = 0
SPECIFICATION Spec
INVARIANTS MemosKept
