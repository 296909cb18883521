\* Two processes that write the table at the same time, with the locks of the file.
CONSTANTS
  f1 = f1
  f2 = f2
  c1 = c1
  c2 = c2
  c3 = c3
  Files = {f1, f2}
  Callers = {c1, c2, c3}
  FileOf <- MCFileOf
  NoOne = NoOne
  Zero = Zero
  Torn = Torn
  InitRows = 1
  Step = 2
  FirstRow = 328
  RowLength = 200
  MaxRecords = 9
  MaxFile = 1000
  Width16 = 65536
  Width32 = 1200
  WriteLock = TRUE
  Serial = TRUE
  Agreements = {FALSE}
  MaxOps = 1
  MaxFaults = 0
SPECIFICATION Spec
INVARIANTS AckedKept
