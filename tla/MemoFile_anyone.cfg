\* Reads at any time, memos that spill out of their blocks.
CONSTANTS
  None = None
  Garbled = Garbled
  Err = Err
  NumRows = 2
  Lengths = {2, 3}
  Signs = {1}
  FileHead = 2
  BlockSize = 2
  FirstFree = 1
  GrowInPlace = FALSE
  ReadsOverlap = TRUE
  MaxOps = 1
  MaxFaults = 0
SPECIFICATION Spec
INVARIANTS BlocksApart MutexOK
