\* Two appenders that may write their rows again, and a reader, under fair scheduling.
\* The program stops when every goroutine has made its calls.
CONSTANTS
  a1 = a1
  a2 = a2
  u1 = u1
  u2 = u2
  r1 = r1
  r2 = r2
  NoOne = NoOne
  Zero = Zero
  Torn = Torn
  HdrBytes = HdrBytes
  Err = Err
  Appenders = {a1, a2}
  Updaters = {}
  Readers = {r1}
  InitRows = 0
  MaxRecords = 3
  FitRows = 4
  Medium = "bytes"
  Reuse = TRUE
  OuterLock = FALSE
  MaxOps = 2
  MaxReads = 1
  MaxFaults = 0
SPECIFICATION FairSpec
INVARIANTS MutexOK
PROPERTIES WritesReturn
CHECK_DEADLOCK FALSE
