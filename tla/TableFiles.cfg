\* Two goroutines, one of which creates tables.
CONSTANTS
  DB = DB
  T1 = T1
  S1 = S1
  P1 = P1
  P2 = P2
  None = None
  Blank = Blank
  Callers = {"g1", "g2"}
  Calls <- MCCalls
  Names = {DB, T1, S1}
  Container = DB
  Catalog <- MCCatalog
  PathOf <- MCPathOf
  Provided <- MCProvided
  Pages = {P1, P2}
  Disks <- MCDisks
  Setups <- MCSetups
  MaxCalls = 3
  MaxFaults = 1
SPECIFICATION Spec
INVARIANTS IInv ConverterFits DatabaseHasCatalog FilesAreUsable
PROPERTIES TablesSurviveCreate HandlesLostByErrorsOnly ClosedMeansClosed CallsReturn
CHECK_DEADLOCK FALSE
