\* One appender, an updater and a reader that calls alone; two I/O errors, torn
\* rows or crashes.
CONSTANTS
  a1 = a1
  a2 = a2
  u1 = u1
  u2 = u2
  r1 = r1
  r2 = r2
  NoOne = NoOne
  Zero = Zero
  Torn = Torn
  HdrBytes = HdrBytes
  Err = Err
  Appenders = {a1}
  Updaters = {u1}
  Readers = {r1}
  InitRows = 1
  MaxRecords = 9
  FitRows = 9
  Medium = "file"
  Reuse = FALSE
  OuterLock = TRUE
  MaxOps = 2
  MaxReads = 2
  MaxFaults = 2
SPECIFICATION Spec
INVARIANTS IInv AckedKept DamageBounded RowsWithinHeader
PROPERTIES RefinesFaulty
