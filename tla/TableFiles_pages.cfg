\* One goroutine opens a database by its file name.
CONSTANTS
  DB = DB
  T1 = T1
  S1 = S1
  P1 = P1
  P2 = P2
  None = None
  Blank = Blank
  Callers = {"g1", "g2"}
  Calls <- MCCalls
  Names = {DB, T1, S1}
  Container = DB
  Catalog <- MCCatalog
  PathOf <- MCPathOf
  Provided <- MCProvided
  Pages = {P1, P2}
  Disks <- MCDisks
  Setups <- MCSetups
  MaxCalls = 3
  MaxFaults = 0
SPECIFICATION Spec
INVARIANTS TablePagesFit
CHECK_DEADLOCK FALSE
