\* Two rows, memos of two blocks, cleared ones; an I/O error, a partial write or a crash.
CONSTANTS
  None = None
  Garbled = Garbled
  Err = Err
  NumRows = 2
  Lengths = {0, 3}
  Signs = {1}
  FileHead = 2
  BlockSize = 2
  FirstFree = 1
  GrowInPlace = FALSE
  ReadsOverlap = FALSE
  MaxOps = 2
  MaxFaults = 1
SPECIFICATION Spec
INVARIANTS IInv ReadsBack MemosKept HeaderAhead
PROPERTIES RefinesMemos
