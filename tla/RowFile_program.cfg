\* All roles together: a program that adds one row at a time and reads alone.
CONSTANTS
  a1 = a1
  a2 = a2
  u1 = u1
  u2 = u2
  r1 = r1
  r2 = r2
  NoOne = NoOne
  Zero = Zero
  Torn = Torn
  HdrBytes = HdrBytes
  Err = Err
  Appenders = {a1, a2}
  Updaters = {u1}
  Readers = {r1}
  InitRows = 2
  MaxRecords = 4
  FitRows = 3
  Medium = "file"
  Reuse = FALSE
  OuterLock = TRUE
  MaxOps = 2
  MaxReads = 2
  MaxFaults = 0
SPECIFICATION Spec
INVARIANTS HeaderCountsRows RowsInTheirSlots ReadHonest
PROPERTIES RefinesStore
